---- MODULE Spec2Model ----
(***************************************************************************)
(* Model of src/App.py (Wan 2.1 Gradio application shell): the pipeline    *)
(* cache keyed by configuration, the generate_videos loop with its polled  *)
(* cancel flag, batch_process_videos, the output file naming of            *)
(* get_next_filename and the crop geometry of auto_crop_image.             *)
(*                                                                         *)
(* Text is modelled as sequences of one-character strings, so that         *)
(* endswith, splitext, int() and the 05d format are computed, not assumed. *)
(***************************************************************************)
EXTENDS Integers, Sequences, FiniteSets, TLC

VARIABLES
    loaded_pipeline,         \* global: None, or the pipeline (named by the configuration it was loaded with)
    loaded_pipeline_config,  \* global: EmptyConfig ({}), or the stored configuration record
    cancel_flag,             \* global polled by generate_videos
    cancel_batch_flag,       \* global polled by batch_process_videos
    outputs,                 \* names of the files in the directory "outputs"
    preprocessed,            \* names of the files in "auto_pre_processed_images"
    batch_outputs,           \* names of the files in the batch output folder
    gen,                     \* frame of the generate_videos call (pc, arguments, locals)
    gen_ret,                 \* value returned by the last generate_videos call
    batch,                   \* frame of the batch_process_videos call
    batch_ret,               \* value returned by the last batch_process_videos call
    hist,                    \* observations: loads, pipeline calls, writes, previous configuration
    calls_left,              \* handler calls that may still be started
    fn                       \* call record of the pure functions (get_next_filename, auto_crop_image)

vars == <<loaded_pipeline, loaded_pipeline_config, cancel_flag, cancel_batch_flag,
          outputs, preprocessed, batch_outputs, gen, gen_ret, batch, batch_ret,
          hist, calls_left, fn>>

-----------------------------------------------------------------------------
(* Text helpers *)

Max(a, b) == IF a >= b THEN a ELSE b

\* F applied to the value of x: as in Python, the argument is evaluated once
\* before the call
Strict(F(_), x) == CHOOSE r \in {F(v) : v \in {x}} : TRUE

DigitChars == <<"0", "1", "2", "3", "4", "5", "6", "7", "8", "9">>

IsDigit(c) == \E k \in 1..10 : DigitChars[k] = c

DigitVal(c) == (CHOOSE k \in 1..10 : DigitChars[k] = c) - 1

\* str.endswith
EndsWith(s, suffix) ==
    /\ Len(s) >= Len(suffix)
    /\ SubSeq(s, Len(s) - Len(suffix) + 1, Len(s)) = suffix

\* os.path.splitext on a bare file name: split at the last dot, leading dots
\* belong to the root
SplitExt(s) ==
    LET lead == CHOOSE k \in 0..Len(s) :
                    /\ \A j \in 1..k : s[j] = "."
                    /\ (k < Len(s) => s[k + 1] # ".")
        dots == {k \in (lead + 2)..Len(s) : s[k] = "."}
    IN  IF dots = {}
        THEN <<s, <<>>>>
        ELSE LET d == CHOOSE k \in dots : \A j \in dots : j <= k
             IN  <<SubSeq(s, 1, d - 1), SubSeq(s, d, Len(s))>>

RECURSIVE DigitsValue(_)
DigitsValue(s) ==
    IF s = <<>> THEN 0
    ELSE 10 * DigitsValue(SubSeq(s, 1, Len(s) - 1)) + DigitVal(s[Len(s)])

\* int(str): an optional sign followed by decimal digits; anything else raises
\* ValueError (ok = FALSE).  Whitespace and underscores are outside the
\* alphabet of the modelled names.
ParseInt(s) ==
    LET signed == s # <<>> /\ s[1] \in {"-", "+"}
        body   == IF signed THEN Tail(s) ELSE s
        ok     == body # <<>> /\ \A k \in 1..Len(body) : IsDigit(body[k])
    IN  [ok  |-> ok,
         val |-> IF ~ok THEN 0
                 ELSE IF signed /\ s[1] = "-" THEN 0 - DigitsValue(body)
                 ELSE DigitsValue(body)]

RECURSIVE Digits(_)
Digits(n) ==
    IF n < 10 THEN <<DigitChars[n + 1]>>
    ELSE Digits(n \div 10) \o <<DigitChars[(n % 10) + 1]>>

RECURSIVE Zeros(_)
Zeros(k) == IF k <= 0 THEN <<>> ELSE <<"0">> \o Zeros(k - 1)

\* f"{n:05d}": sign-aware zero padding to a minimum field width of five
Format05d(n) ==
    LET sign == IF n < 0 THEN <<"-">> ELSE <<>>
        ds   == Digits(IF n < 0 THEN 0 - n ELSE n)
    IN  sign \o Zeros(5 - Len(sign) - Len(ds)) \o ds

MP4 == <<".", "m", "p", "4">>
TXT == <<".", "t", "x", "t">>
PNG == <<".", "p", "n", "g">>

SetMax(S) == CHOOSE m \in S : \A x \in S : x <= m

-----------------------------------------------------------------------------
(* get_next_filename *)

\* numbering by the count of the numbered files instead of their maximum
get_next_filename_by_count(dir, extension) ==
    Format05d(Cardinality({g \in dir : EndsWith(g, extension) /\ ParseInt(SplitExt(g)[1]).ok}) + 1)
        \o extension

\* existing_files / current_numbers of get_next_filename
CurrentNumbers(dir, extension) ==
    LET stems == {SplitExt(f)[1] : f \in {g \in dir : EndsWith(g, extension)}}
    IN  {ParseInt(st).val : st \in {t \in stems : ParseInt(t).ok}}

\* the file name (inside "outputs") returned by get_next_filename
get_next_filename(dir, extension) ==
    LET next_number(current_numbers) ==
            (IF current_numbers = {} THEN 0 ELSE SetMax(current_numbers)) + 1
        name(current_numbers) == Strict(Format05d, next_number(current_numbers)) \o extension
    IN  Strict(name, CurrentNumbers(dir, extension))

-----------------------------------------------------------------------------
(* Bounds and input sets *)

MaxRuns == 1        \* handler calls per behaviour, over the whole input space (Spec)
MaxCalls == 2       \* handler calls per behaviour, over the inputs of SpecSeq
MaxGen == 2         \* largest num_generations entered

\* num_generations is a gr.Number without a minimum: zero and negative values
\* can be entered
NumGenerations == (0 - 1)..MaxGen

RADIO_1_3B == "WAN 2.1 1.3B (Text/Video-to-Video)"
RADIO_T2V_14B == "WAN 2.1 14B Text-to-Video"
RADIO_I2V_720P == "WAN 2.1 14B Image-to-Video 720P"
RADIO_I2V_480P == "WAN 2.1 14B Image-to-Video 480P"
RADIO_OTHER == "WAN 9.9 (unknown)"

ModelRadios == {RADIO_1_3B, RADIO_T2V_14B, RADIO_I2V_720P, RADIO_I2V_480P, RADIO_OTHER}

ImageRadios == {RADIO_I2V_720P, RADIO_I2V_480P}

\* a chain of tests whose last branch is taken for every other choice
ModelChoiceElse(radio) ==
    CASE radio = RADIO_1_3B     -> "1.3B"
      [] radio = RADIO_T2V_14B  -> "14B_text"
      [] radio = RADIO_I2V_720P -> "14B_image_720p"
      [] OTHER                  -> "14B_image_480p"

\* lines 322-335: the effective model, "" when the choice is not recognized
ModelChoice(radio) ==
    CASE radio = RADIO_1_3B     -> "1.3B"
      [] radio = RADIO_T2V_14B  -> "14B_text"
      [] radio = RADIO_I2V_720P -> "14B_image_720p"
      [] radio = RADIO_I2V_480P -> "14B_image_480p"
      [] OTHER                  -> ""

\* the four pipeline settings besides the model: each variant differs from
\* the first one in exactly one field (lora_alpha in tenths)
Settings ==
    { [torch_dtype |-> "torch.bfloat16",      num_persistent_input |-> "12000000000", lora_model |-> "None",          lora_alpha |-> 10],
      [torch_dtype |-> "torch.float8_e4m3fn", num_persistent_input |-> "12000000000", lora_model |-> "None",          lora_alpha |-> 10],
      [torch_dtype |-> "torch.bfloat16",      num_persistent_input |-> "0",           lora_model |-> "None",          lora_alpha |-> 10],
      [torch_dtype |-> "torch.bfloat16",      num_persistent_input |-> "12000000000", lora_model |-> "a.safetensors", lora_alpha |-> 10],
      [torch_dtype |-> "torch.bfloat16",      num_persistent_input |-> "12000000000", lora_model |-> "None",          lora_alpha |-> 5] }

BaseSettings == CHOOSE s \in Settings :
    s.torch_dtype = "torch.bfloat16" /\ s.num_persistent_input = "12000000000"
        /\ s.lora_model = "None" /\ s.lora_alpha = 10

\* lines 372-375 and 592-595: the LoRA path, <<>> standing for None
EffectiveLora(lora_model) ==
    IF lora_model = "None" \/ lora_model = "" THEN <<>> ELSE <<"LoRAs", lora_model>>

\* lines 378-384 and 597-603
CurrentConfig(model_choice, a) ==
    [model_choice   |-> model_choice,
     torch_dtype    |-> a.torch_dtype,
     num_persistent |-> a.num_persistent_input,
     lora_model     |-> EffectiveLora(a.lora_model),
     lora_alpha     |-> a.lora_alpha]

\* the empty dict {} of lines 413, 466, 542, 745, 930
EmptyConfig ==
    [model_choice |-> "", torch_dtype |-> "", num_persistent |-> "",
     lora_model |-> <<>>, lora_alpha |-> 0]

\* loaded_pipeline = None
NoPipeline == [loaded |-> FALSE, cfg |-> EmptyConfig]

\* the object returned by load_wan_pipeline, identified by its five arguments
load_wan_pipeline(cfg) == [loaded |-> TRUE, cfg |-> cfg]

-----------------------------------------------------------------------------
(* Prompt text: a text is the sequence of its lines, a line a sequence of
   characters; the empty text has no line *)

IsSpace(c) == c = " "

RECURSIVE LStrip(_)
LStrip(l) == IF l # <<>> /\ IsSpace(l[1]) THEN LStrip(Tail(l)) ELSE l

RECURSIVE RStrip(_)
RStrip(l) ==
    IF l # <<>> /\ IsSpace(l[Len(l)]) THEN RStrip(SubSeq(l, 1, Len(l) - 1)) ELSE l

\* str.strip on one line
StripLine(l) == Strict(RStrip, Strict(LStrip, l))

IsBlank(l) == StripLine(l) = <<>>

RECURSIVE DropLeadingBlank(_)
DropLeadingBlank(t) ==
    IF t # <<>> /\ IsBlank(t[1]) THEN DropLeadingBlank(Tail(t)) ELSE t

RECURSIVE DropTrailingBlank(_)
DropTrailingBlank(t) ==
    IF t # <<>> /\ IsBlank(t[Len(t)])
    THEN DropTrailingBlank(SubSeq(t, 1, Len(t) - 1)) ELSE t

\* str.strip on a whole text: line breaks are white space too, inner lines
\* are kept as they are
StripText(t) ==
    LET ends(u) == [k \in 1..Len(u) |->
                       IF k = 1 /\ k = Len(u) THEN StripLine(u[k])
                       ELSE IF k = 1 THEN LStrip(u[k])
                       ELSE IF k = Len(u) THEN RStrip(u[k])
                       ELSE u[k]]
    IN  Strict(ends, Strict(DropTrailingBlank, Strict(DropLeadingBlank, t)))

\* lines 396-399: the list of prompts, each prompt a text
PromptsList(prompt, multi_line) ==
    IF multi_line
    THEN LET lines(keep) == [k \in 1..Len(keep) |-> <<StripLine(keep[k])>>]
         IN  Strict(lines, SelectSeq(prompt, LAMBDA l : ~IsBlank(l)))
    ELSE <<StripText(prompt)>>

LineA == <<"a">>
LineB == <<" ", "b", " ">>
LineBlank == <<" ">>

\* the prompts entered, each with the state of the multi-line checkbox
PromptInputs ==
    { [prompt |-> <<LineA>>,                   multi_line |-> FALSE],
      [prompt |-> <<LineA, LineB>>,            multi_line |-> FALSE],
      [prompt |-> <<>>,                        multi_line |-> FALSE],
      [prompt |-> <<LineA, LineBlank, LineB>>, multi_line |-> TRUE],
      [prompt |-> <<LineBlank>>,               multi_line |-> TRUE] }

\* seed text box contents: empty, a number, not a number
SeedInputs == {<<>>, <<"7">>, <<"x">>}

\* stand-ins for the values of random.randint(0, 2**32 - 1)
RandomSeeds == {41, 42}

\* lines 425-431 and 664-670: the seeds an iteration can use
SeedChoices(use_random_seed, seed_input) ==
    LET seeds(text) == IF text # <<>> /\ ParseInt(text).ok THEN {ParseInt(text).val} ELSE {0}
    IN  IF use_random_seed THEN RandomSeeds ELSE Strict(seeds, StripLine(seed_input))

-----------------------------------------------------------------------------
(* Arguments of generate_videos *)

GenArgs(radio, st, pi, n, save, image, random, seed, rife) ==
    [model_choice_radio   |-> radio,
     torch_dtype          |-> st.torch_dtype,
     num_persistent_input |-> st.num_persistent_input,
     lora_model           |-> st.lora_model,
     lora_alpha           |-> st.lora_alpha,
     prompt               |-> pi.prompt,
     multi_line           |-> pi.multi_line,
     num_generations      |-> n,
     save_prompt          |-> save,
     input_image          |-> image,      \* TRUE: an image was given, FALSE: None
     use_random_seed      |-> random,
     seed_input           |-> seed,
     auto_crop            |-> TRUE,
     pr_rife_enabled      |-> rife.enabled,
     pr_rife_radio        |-> rife.radio]

NoRife == [enabled |-> FALSE, radio |-> "2x FPS"]

RifeInputs == {NoRife, [enabled |-> TRUE, radio |-> "2x FPS"], [enabled |-> TRUE, radio |-> "4x FPS"]}

OnePrompt == [prompt |-> <<LineA>>, multi_line |-> FALSE]

ThreeLines == [prompt |-> <<LineA, LineBlank, LineB>>, multi_line |-> TRUE]

\* every model with every pipeline setting, one prompt, one generation
GenInputsConfig ==
    {GenArgs(radio, st, OnePrompt, 1, TRUE, TRUE, FALSE, <<"7">>, NoRife) :
        radio \in ModelRadios \ {RADIO_OTHER}, st \in Settings}
    \cup {GenArgs(RADIO_OTHER, BaseSettings, OnePrompt, 1, TRUE, TRUE, FALSE, <<"7">>, NoRife)}

\* every prompt with every number of generations, with and without an image
GenInputsLoop ==
    {GenArgs(RADIO_T2V_14B, BaseSettings, pi, n, TRUE, FALSE, FALSE, <<>>, NoRife) :
        pi \in PromptInputs, n \in NumGenerations}
    \cup {GenArgs(RADIO_I2V_480P, BaseSettings, pi, n, TRUE, image, FALSE, <<>>, NoRife) :
        pi \in {OnePrompt, ThreeLines}, n \in NumGenerations, image \in BOOLEAN}

\* the sidecar switch, the seed sources and the interpolation switch
GenInputsSidecar ==
    {GenArgs(RADIO_1_3B, BaseSettings, OnePrompt, 1, save, FALSE, sd.random, sd.seed, rife) :
        save \in BOOLEAN,
        sd \in {[random |-> TRUE, seed |-> <<"7">>]} \cup {[random |-> FALSE, seed |-> x] : x \in SeedInputs},
        rife \in RifeInputs}

GenInputs == GenInputsConfig \cup GenInputsLoop \cup GenInputsSidecar

NegativePrompt == <<<<"n">>>>

-----------------------------------------------------------------------------
(* Paths, log lines, sidecar lines *)

Path(dir, name) == [dir |-> dir, name |-> name]

NoPath == Path("", <<>>)

Improved == <<"i", "m", "p", "r", "o", "v", "e", "d", "_">>

LogLine(tag, it, total, name) == [tag |-> tag, it |-> it, total |-> total, name |-> name]

Log(tag) == LogLine(tag, 0, 0, <<>>)

\* the physical lines written by f"{key}: {text}\n": the text may span
\* several lines, the lines after the first carry no key
KeyValueLines(key, text) ==
    IF text = <<>> THEN <<[key |-> key, val |-> <<>>]>>
    ELSE [k \in 1..Len(text) |-> [key |-> IF k = 1 THEN key ELSE "", val |-> text[k]]]

KeyValue(key, val) == <<[key |-> key, val |-> <<val>>]>>

SidecarKeys ==
    <<"Prompt", "Negative Prompt", "Used Model", "Number of Inference Steps", "Seed",
      "Number of Frames", "Denoising Strength", "LoRA Model", "Precision", "Auto Crop",
      "Generation Duration">>

\* lines 497-516: generation_details
GenerationDetails(a, enhanced_prompt, current_seed) ==
    KeyValueLines("Prompt", enhanced_prompt)
    \o KeyValueLines("Negative Prompt", NegativePrompt)
    \o KeyValue("Used Model", a.model_choice_radio)
    \o KeyValue("Number of Inference Steps", "inference_steps")
    \o KeyValue("Seed", current_seed)
    \o KeyValue("Number of Frames", "effective_num_frames")
    \o KeyValue("Denoising Strength", "N/A")
    \o KeyValue("LoRA Model", IF a.lora_model # "" /\ a.lora_model # "None"
                              THEN <<a.lora_model, a.lora_alpha>> ELSE <<"None">>)
    \o KeyValue("Precision", IF a.torch_dtype = "torch.float8_e4m3fn" THEN "FP8" ELSE "BF16")
    \o KeyValue("Auto Crop", IF a.auto_crop THEN "Enabled" ELSE "Disabled")
    \o KeyValue("Generation Duration", "duration")

\* last_used_seed = None
NoSeed == 0 - 1

\* str(last_used_seed or "")
SeedText(last_used_seed) ==
    IF last_used_seed = NoSeed \/ last_used_seed = 0 THEN <<>> ELSE Digits(last_used_seed)

-----------------------------------------------------------------------------
(* generate_videos *)

NoArgs == GenArgs("", [torch_dtype |-> "", num_persistent_input |-> "", lora_model |-> "", lora_alpha |-> 0],
                  [prompt |-> <<>>, multi_line |-> FALSE], 0, FALSE, FALSE, FALSE, <<>>, NoRife)

\* no call in progress
IdleGen ==
    [pc               |-> "idle",
     args             |-> NoArgs,
     model_choice     |-> "",
     current_config   |-> EmptyConfig,
     prompts_list     |-> <<>>,
     total_iterations |-> 0,
     iteration        |-> 0,
     p                |-> 0,          \* index of the current prompt in prompts_list
     i                |-> 0,          \* repetition of the current prompt
     current_seed     |-> NoSeed,
     last_used_seed   |-> NoSeed,
     video_filename   |-> NoPath,
     last_video_path  |-> NoPath,
     log_text         |-> <<>>]

\* nothing returned yet to the user interface; a new call clears what the
\* previous one has returned
NoReturn == [video |-> NoPath, log |-> <<>>, seed |-> <<>>]

NoCall == [seed |-> NoSeed, prompt |-> <<>>, image |-> FALSE, pipeline |-> NoPipeline, iteration |-> 0,
           flag |-> FALSE]

NoSidecar == [path |-> NoPath, lines |-> <<>>, seed |-> NoSeed]

\* observations of the run in progress, cleared when a handler is entered
NewRun(h) ==
    [h EXCEPT !.loads = 0, !.calls = 0, !.saves = 0, !.polls = 0, !.call = NoCall,
              !.sidecar = NoSidecar, !.trace = <<>>, !.saved = <<>>]

InitHist ==
    [loads       |-> 0,            \* load_wan_pipeline calls of the run
     calls       |-> 0,            \* pipeline invocations of the run
     saves       |-> 0,            \* save_video calls of the run
     polls       |-> 0,            \* reads of the cancel flag in the run
     call        |-> NoCall,       \* arguments of the last pipeline invocation
     sidecar     |-> NoSidecar,    \* the last sidecar written
     trace       |-> <<>>,         \* <<prompt index, repetition>> of the iterations begun
     saved       |-> <<>>,         \* names of the videos saved by the run
     prev_config |-> EmptyConfig]  \* configuration of the last completed generate_videos call

\* lines 404-405: the first iteration of the nested loops, or the loop's end
EnterLoop(g) ==
    LET n  == g.args.num_generations
        loop(pl) == [g EXCEPT !.prompts_list = pl,
                              !.total_iterations = Len(pl) * n,
                              !.iteration = 0,
                              !.p = 1, !.i = 0,
                              !.pc = IF Len(pl) >= 1 /\ n >= 1 THEN "poll" ELSE "post"]
    IN  Strict(loop, PromptsList(g.args.prompt, g.args.multi_line))

\* an inner loop that runs once whatever num_generations is
NextIterationOncePerPrompt(g) ==
    IF g.p + 1 <= Len(g.prompts_list)
    THEN [g EXCEPT !.p = g.p + 1, !.i = 0, !.pc = "poll"]
    ELSE [g EXCEPT !.pc = "post"]

\* the next iteration of the nested loops after the current one
NextIteration(g) ==
    IF g.i + 1 < g.args.num_generations
    THEN [g EXCEPT !.i = g.i + 1, !.pc = "poll"]
    ELSE IF g.p + 1 <= Len(g.prompts_list)
         THEN [g EXCEPT !.p = g.p + 1, !.i = 0, !.pc = "poll"]
         ELSE [g EXCEPT !.pc = "post"]

\* an entry that leaves the flag as the previous run left it
FlagKept(flag) == flag

\* lines 315 and 575: the flag of a handler when the handler is entered
FlagAtEntry(flag) == FALSE

\* lines 314-384: reset of the cancel flag, model validation, configuration
GenEnter(a) ==
    /\ gen.pc = "idle"
    /\ calls_left > 0
    /\ calls_left' = calls_left - 1
    /\ cancel_flag' = FlagAtEntry(cancel_flag)
    /\ IF ModelChoice(a.model_choice_radio) = ""
       THEN /\ gen' = IdleGen
            /\ gen_ret' = [video |-> NoPath, log |-> <<Log("Invalid model choice.")>>, seed |-> <<>>]
            /\ hist' = [NewRun(hist) EXCEPT !.prev_config = EmptyConfig]
       ELSE /\ gen' = [IdleGen EXCEPT !.pc = "check",
                                      !.args = a,
                                      !.model_choice = ModelChoice(a.model_choice_radio),
                                      !.current_config = CurrentConfig(ModelChoice(a.model_choice_radio), a)]
            /\ hist' = NewRun(hist)
            /\ gen_ret' = NoReturn
    /\ batch_ret' = <<>>
    /\ UNCHANGED <<loaded_pipeline, loaded_pipeline_config, cancel_batch_flag, outputs,
                   preprocessed, batch_outputs, batch, fn>>

\* generate_videos called while no other handler runs
GenStart(a) == batch.pc = "idle" /\ GenEnter(a)

\* a test that forgets the LoRA scale
ConfigChangedButAlpha(pipeline, stored, current) ==
    ~pipeline.loaded \/ [stored EXCEPT !.lora_alpha = 0] # [current EXCEPT !.lora_alpha = 0]

\* line 387: the test that decides the reload
ConfigChanged(pipeline, stored, current) ==
    ~pipeline.loaded \/ stored # current

GenCheckConfig ==
    /\ gen.pc = "check"
    /\ gen' = IF ConfigChanged(loaded_pipeline, loaded_pipeline_config, gen.current_config)
              THEN [gen EXCEPT !.pc = "load"]
              ELSE EnterLoop(gen)
    /\ UNCHANGED <<loaded_pipeline, loaded_pipeline_config, cancel_flag, cancel_batch_flag,
                   outputs, preprocessed, batch_outputs, gen_ret, batch, batch_ret, hist, calls_left, fn>>

\* lines 392-393
GenLoadPipeline ==
    /\ gen.pc = "load"
    /\ loaded_pipeline' = load_wan_pipeline(gen.current_config)
    /\ hist' = [hist EXCEPT !.loads = hist.loads + 1]
    /\ gen' = [gen EXCEPT !.pc = "setcfg"]
    /\ UNCHANGED <<loaded_pipeline_config, cancel_flag, cancel_batch_flag,
                   outputs, preprocessed, batch_outputs, gen_ret, batch, batch_ret, calls_left, fn>>

\* line 394
GenStoreConfig ==
    /\ gen.pc = "setcfg"
    /\ loaded_pipeline_config' = gen.current_config
    /\ gen' = EnterLoop(gen)
    /\ UNCHANGED <<loaded_pipeline, cancel_flag, cancel_batch_flag,
                   outputs, preprocessed, batch_outputs, gen_ret, batch, batch_ret, hist, calls_left, fn>>

\* a return that drops the pipeline and keeps the stored configuration
ReleasePipelineOnly ==
    /\ loaded_pipeline' = NoPipeline
    /\ UNCHANGED loaded_pipeline_config

\* the tail of every return that follows the load: the pipeline is dropped
Release ==
    /\ loaded_pipeline' = NoPipeline
    /\ loaded_pipeline_config' = EmptyConfig

\* a return that always hands back the last video saved
GenReturnLastVideo(video, log, seed) ==
    /\ gen_ret' = [video |-> gen.last_video_path, log |-> log, seed |-> SeedText(seed)]
    /\ gen' = IdleGen

\* lines 414, 467, 544: the three values handed back to the user interface
GenReturn(video, log, seed) ==
    /\ gen_ret' = [video |-> video, log |-> log, seed |-> SeedText(seed)]
    /\ gen' = IdleGen

\* a poll that never sees the request
CancelIgnored(flag) == FALSE

\* lines 406 and 635: the value the poll acts on
CancelRequested(flag) == flag

\* lines 406-414: the poll finds the flag set
GenCancelled ==
    /\ gen.pc = "poll"
    /\ CancelRequested(cancel_flag)
    /\ Release
    /\ GenReturn(NoPath,
                 gen.log_text \o <<Log("Generation cancelled by user."), Log("Used VRAM Setting"),
                                   Log("Generation complete")>>,
                 gen.last_used_seed)
    /\ hist' = [hist EXCEPT !.polls = hist.polls + 1, !.prev_config = gen.current_config]
    /\ UNCHANGED <<cancel_flag, cancel_batch_flag, outputs, preprocessed, batch_outputs,
                   batch, batch_ret, calls_left, fn>>

\* lines 406, 415-446: the poll finds the flag clear; counter, log line, seed
GenBeginIteration ==
    /\ gen.pc = "poll"
    /\ ~CancelRequested(cancel_flag)
    /\ \E seed \in SeedChoices(gen.args.use_random_seed, gen.args.seed_input) :
          gen' = [gen EXCEPT !.iteration = gen.iteration + 1,
                             !.log_text = Append(gen.log_text,
                                 LogLine("Generating video", gen.iteration + 1,
                                         gen.total_iterations, <<>>)),
                             !.current_seed = seed,
                             !.last_used_seed = seed,
                             !.pc = "body"]
    /\ hist' = [hist EXCEPT !.polls = hist.polls + 1,
                            !.trace = Append(hist.trace, <<gen.p, gen.i>>)]
    /\ UNCHANGED <<loaded_pipeline, loaded_pipeline_config, cancel_flag, cancel_batch_flag,
                   outputs, preprocessed, batch_outputs, gen_ret, batch, batch_ret, calls_left, fn>>

\* the call loaded_pipeline(**common_args), as seen from outside
PipelineCall(g, image) ==
    [seed      |-> g.current_seed,
     prompt    |-> g.prompts_list[g.p],
     image     |-> image,
     pipeline  |-> loaded_pipeline,
     iteration |-> g.iteration,
     flag      |-> cancel_flag]       \* the cancel flag while the pipeline runs

\* lines 449-460: text-to-video and video-to-video models
GenInvokeText ==
    /\ gen.pc = "body"
    /\ gen.model_choice \in {"1.3B", "14B_text"}
    /\ loaded_pipeline.loaded
    /\ hist' = [hist EXCEPT !.calls = hist.calls + 1, !.call = PipelineCall(gen, FALSE)]
    /\ gen' = [gen EXCEPT !.video_filename = Path("outputs", get_next_filename(outputs, MP4)),
                          !.pc = "save"]
    /\ UNCHANGED <<loaded_pipeline, loaded_pipeline_config, cancel_flag, cancel_batch_flag,
                   outputs, preprocessed, batch_outputs, gen_ret, batch, batch_ret, calls_left, fn>>

\* lines 461-467: image-to-video model without an image
GenNoImage ==
    /\ gen.pc = "body"
    /\ gen.model_choice \in {"14B_image_720p", "14B_image_480p"}
    /\ ~gen.args.input_image
    /\ Release
    /\ GenReturn(NoPath, <<Log("Error: Image model selected but no image provided.")>>,
                 gen.last_used_seed)
    /\ hist' = [hist EXCEPT !.prev_config = gen.current_config]
    /\ UNCHANGED <<cancel_flag, cancel_batch_flag, outputs, preprocessed, batch_outputs,
                   batch, batch_ret, calls_left, fn>>

\* an iteration that allocates the file name and writes no image
GenSkipPreprocessed ==
    /\ gen.pc = "body"
    /\ gen.model_choice \in {"14B_image_720p", "14B_image_480p"}
    /\ gen.args.input_image
    /\ gen' = [gen EXCEPT !.video_filename = Path("outputs", get_next_filename(outputs, MP4)),
                          !.pc = "invoke"]
    /\ UNCHANGED <<loaded_pipeline, loaded_pipeline_config, cancel_flag, cancel_batch_flag,
                   outputs, preprocessed, batch_outputs, gen_ret, batch, batch_ret, hist,
                   calls_left, fn>>

\* lines 468-482: file name, then the pre-processed image is saved
GenSavePreprocessed ==
    /\ gen.pc = "body"
    /\ gen.model_choice \in {"14B_image_720p", "14B_image_480p"}
    /\ gen.args.input_image
    /\ \E video_name \in {get_next_filename(outputs, MP4)} :
       \E base_name \in {SplitExt(video_name)[1]} :
           /\ preprocessed' = preprocessed \cup {base_name \o PNG}
           /\ gen' = [gen EXCEPT !.video_filename = Path("outputs", video_name),
                                 !.log_text = Append(gen.log_text,
                                     LogLine("Saved auto processed image", 0, 0, base_name \o PNG)),
                                 !.pc = "invoke"]
    /\ UNCHANGED <<loaded_pipeline, loaded_pipeline_config, cancel_flag, cancel_batch_flag,
                   outputs, batch_outputs, gen_ret, batch, batch_ret, hist, calls_left, fn>>

\* line 483
GenInvokeImage ==
    /\ gen.pc = "invoke"
    /\ loaded_pipeline.loaded
    /\ hist' = [hist EXCEPT !.calls = hist.calls + 1, !.call = PipelineCall(gen, TRUE)]
    /\ gen' = [gen EXCEPT !.pc = "save"]
    /\ UNCHANGED <<loaded_pipeline, loaded_pipeline_config, cancel_flag, cancel_batch_flag,
                   outputs, preprocessed, batch_outputs, gen_ret, batch, batch_ret, calls_left, fn>>

\* lines 491-495, and line 522 when no sidecar is asked for
GenSaveVideo ==
    /\ gen.pc = "save"
    /\ outputs' = outputs \cup {gen.video_filename.name}
    /\ hist' = [hist EXCEPT !.saves = hist.saves + 1,
                            !.saved = Append(hist.saved, gen.video_filename.name)]
    /\ LET g == [gen EXCEPT !.log_text = Append(gen.log_text,
                                LogLine("Saved video", 0, 0, gen.video_filename.name))]
       IN  gen' = IF gen.args.save_prompt
                  THEN [g EXCEPT !.pc = "sidecar"]
                  ELSE NextIteration([g EXCEPT !.last_video_path = gen.video_filename])
    /\ UNCHANGED <<loaded_pipeline, loaded_pipeline_config, cancel_flag, cancel_batch_flag,
                   preprocessed, batch_outputs, gen_ret, batch, batch_ret, calls_left, fn>>

\* lines 496-522
GenSaveSidecar ==
    /\ gen.pc = "sidecar"
    /\ LET text_name == SplitExt(gen.video_filename.name)[1] \o TXT
       IN  /\ outputs' = outputs \cup {text_name}
           /\ hist' = [hist EXCEPT !.sidecar =
                          [path  |-> Path(gen.video_filename.dir, text_name),
                           lines |-> GenerationDetails(gen.args, gen.prompts_list[gen.p],
                                                       gen.current_seed),
                           seed  |-> gen.current_seed]]
           /\ gen' = NextIteration([gen EXCEPT
                         !.log_text = Append(gen.log_text,
                             LogLine("Saved prompt and parameters", 0, 0, text_name)),
                         !.last_video_path = gen.video_filename])
    /\ UNCHANGED <<loaded_pipeline, loaded_pipeline_config, cancel_flag, cancel_batch_flag,
                   preprocessed, batch_outputs, gen_ret, batch, batch_ret, calls_left, fn>>

\* a test that looks at the checkbox alone
WantsInterpolationWhenEnabled(g) == g.args.pr_rife_enabled

\* line 524
WantsInterpolation(g) == g.args.pr_rife_enabled /\ g.last_video_path # NoPath

\* line 526
MultiplierVal(pr_rife_radio) == IF pr_rife_radio = "2x FPS" THEN 2 ELSE 4

\* lines 524-534: the Practical-RIFE subprocess writes the improved video
GenInterpolate ==
    /\ gen.pc = "post"
    /\ WantsInterpolation(gen)
    /\ LET improved_video == Path("outputs", Improved \o gen.last_video_path.name)
       IN  /\ outputs' = outputs \cup {improved_video.name}
           /\ gen' = [gen EXCEPT !.last_video_path = improved_video,
                                 !.log_text = Append(gen.log_text,
                                     LogLine("Applied Practical-RIFE",
                                             MultiplierVal(gen.args.pr_rife_radio), 0,
                                             improved_video.name)),
                                 !.pc = "finish"]
    /\ UNCHANGED <<loaded_pipeline, loaded_pipeline_config, cancel_flag, cancel_batch_flag,
                   preprocessed, batch_outputs, gen_ret, batch, batch_ret, hist, calls_left, fn>>

\* lines 536-544
GenFinish ==
    /\ gen.pc = "finish" \/ (gen.pc = "post" /\ ~WantsInterpolation(gen))
    /\ Release
    /\ GenReturn(gen.last_video_path,
                 gen.log_text \o <<Log("Used VRAM Setting"), Log("Generation complete")>>,
                 gen.last_used_seed)
    /\ hist' = [hist EXCEPT !.prev_config = gen.current_config]
    /\ UNCHANGED <<cancel_flag, cancel_batch_flag, outputs, preprocessed, batch_outputs,
                   batch, batch_ret, calls_left, fn>>

\* lines 547-554
cancel_generation ==
    /\ cancel_flag' = TRUE
    /\ UNCHANGED <<loaded_pipeline, loaded_pipeline_config, cancel_batch_flag, outputs,
                   preprocessed, batch_outputs, gen, gen_ret, batch, batch_ret, hist, calls_left, fn>>

-----------------------------------------------------------------------------
(* batch_process_videos *)

\* the input folder as os.listdir returns it: two readable images (one with a
\* prompt file, one with an empty prompt file), a file that is no image, and
\* an image file that PIL cannot open
FolderListing ==
    << <<"c", ".", "p", "n", "g">>, <<"c", ".", "t", "x", "t">>,
       <<"d", ".", "J", "P", "G">>, <<"d", ".", "t", "x", "t">>,
       <<"n", ".", "m", "d">>,
       <<"k", ".", "j", "p", "e", "g">> >>

\* contents of the prompt files of the input folder
FolderText(name) == IF name = <<"c", ".", "t", "x", "t">> THEN <<LineB>> ELSE <<>>

Unreadable == {<<"k", ".", "j", "p", "e", "g">>}

LowerChar(c) ==
    CASE c = "J" -> "j" [] c = "P" -> "p" [] c = "G" -> "g" [] c = "N" -> "n" [] OTHER -> c

\* str.lower
Lower(s) == [k \in 1..Len(s) |-> LowerChar(s[k])]

ImageExtensions == {<<".", "j", "p", "g">>, <<".", "p", "n", "g">>, <<".", "j", "p", "e", "g">>}

\* line 630
ImagesOf(files) == SelectSeq(files, LAMBDA f : Lower(SplitExt(f)[2]) \in ImageExtensions)

BatchArgs(radio, st, folder, skip, save, crop, rife) ==
    [model_choice_radio   |-> radio,
     torch_dtype          |-> st.torch_dtype,
     num_persistent_input |-> st.num_persistent_input,
     lora_model           |-> st.lora_model,
     lora_alpha           |-> st.lora_alpha,
     default_prompt       |-> <<LineA>>,
     folder_path          |-> folder,      \* "batch_inputs" exists, "missing" does not
     skip_overwrite       |-> skip,
     save_prompt          |-> save,
     auto_crop            |-> crop,
     use_random_seed      |-> FALSE,
     seed_input           |-> <<"7">>,
     pr_rife_enabled      |-> rife.enabled,
     pr_rife_radio        |-> rife.radio]

\* every model with every pipeline setting, on an existing and on a missing folder
BatchInputsConfig ==
    {BatchArgs(radio, st, folder, TRUE, FALSE, FALSE, NoRife) :
        radio \in ImageRadios, st \in Settings, folder \in {"batch_inputs", "missing"}}
    \cup {BatchArgs(radio, BaseSettings, "batch_inputs", TRUE, FALSE, FALSE, NoRife) :
        radio \in ModelRadios \ ImageRadios}

\* the switches of the loop
BatchInputsLoop ==
    {BatchArgs(RADIO_I2V_480P, BaseSettings, "batch_inputs", skip, save, crop,
               [enabled |-> rife, radio |-> "4x FPS"]) :
        skip \in BOOLEAN, save \in BOOLEAN, crop \in BOOLEAN, rife \in BOOLEAN}

BatchInputs == BatchInputsConfig \cup BatchInputsLoop

NoBatchArgs ==
    [BatchArgs("", [torch_dtype |-> "", num_persistent_input |-> "", lora_model |-> "", lora_alpha |-> 0],
               "", FALSE, FALSE, FALSE, NoRife)
        EXCEPT !.default_prompt = <<>>, !.seed_input = <<>>]

IdleBatch ==
    [pc              |-> "idle",
     args            |-> NoBatchArgs,
     model_choice    |-> "",
     current_config  |-> EmptyConfig,
     images          |-> <<>>,
     k               |-> 0,            \* index of the current image in images
     prompt_content  |-> <<>>,
     current_seed    |-> NoSeed,
     output_filename |-> NoPath,
     log_text        |-> <<>>]

BatchReturn(log) ==
    /\ batch_ret' = log
    /\ batch' = IdleBatch

\* lines 574-603
BatchEnter(a) ==
    /\ batch.pc = "idle"
    /\ calls_left > 0
    /\ calls_left' = calls_left - 1
    /\ cancel_batch_flag' = FlagAtEntry(cancel_batch_flag)
    /\ hist' = NewRun(hist)
    /\ IF a.model_choice_radio \notin ImageRadios
       THEN BatchReturn(<<Log("Batch processing currently only supports the WAN 2.1 14B Image-to-Video models.")>>)
       ELSE /\ batch' = [IdleBatch EXCEPT !.pc = "check",
                                          !.args = a,
                                          !.model_choice = ModelChoice(a.model_choice_radio),
                                          !.current_config = CurrentConfig(ModelChoice(a.model_choice_radio), a)]
            /\ batch_ret' = <<>>
    /\ gen_ret' = NoReturn
    /\ UNCHANGED <<loaded_pipeline, loaded_pipeline_config, cancel_flag, outputs,
                   preprocessed, batch_outputs, gen, fn>>

\* batch_process_videos called while no other handler runs
BatchStart(a) == gen.pc = "idle" /\ BatchEnter(a)

\* line 604
BatchCheckConfig ==
    /\ batch.pc = "check"
    /\ batch' = [batch EXCEPT !.pc =
                    IF ConfigChanged(loaded_pipeline, loaded_pipeline_config, batch.current_config)
                    THEN "load" ELSE "folder"]
    /\ UNCHANGED <<loaded_pipeline, loaded_pipeline_config, cancel_flag, cancel_batch_flag,
                   outputs, preprocessed, batch_outputs, gen, gen_ret, batch_ret, hist, calls_left, fn>>

\* line 609
BatchLoadPipeline ==
    /\ batch.pc = "load"
    /\ loaded_pipeline' = load_wan_pipeline(batch.current_config)
    /\ hist' = [hist EXCEPT !.loads = hist.loads + 1]
    /\ batch' = [batch EXCEPT !.pc = "setcfg"]
    /\ UNCHANGED <<loaded_pipeline_config, cancel_flag, cancel_batch_flag,
                   outputs, preprocessed, batch_outputs, gen, gen_ret, batch_ret, calls_left, fn>>

\* line 610
BatchStoreConfig ==
    /\ batch.pc = "setcfg"
    /\ loaded_pipeline_config' = batch.current_config
    /\ batch' = [batch EXCEPT !.pc = "folder"]
    /\ UNCHANGED <<loaded_pipeline, cancel_flag, cancel_batch_flag,
                   outputs, preprocessed, batch_outputs, gen, gen_ret, batch_ret, hist, calls_left, fn>>

\* lines 621-623: the folder does not exist; the pipeline stays loaded
BatchFolderMissing ==
    /\ batch.pc = "folder"
    /\ batch.args.folder_path = "missing"
    /\ BatchReturn(Append(batch.log_text, Log("Provided folder path does not exist")))
    /\ UNCHANGED <<loaded_pipeline, loaded_pipeline_config, cancel_flag, cancel_batch_flag,
                   outputs, preprocessed, batch_outputs, gen, gen_ret, hist, calls_left, fn>>

\* lines 625-632
BatchListImages ==
    /\ batch.pc = "folder"
    /\ batch.args.folder_path # "missing"
    /\ LET images == ImagesOf(FolderListing)
       IN  batch' = [batch EXCEPT !.images = images,
                                  !.k = 1,
                                  !.log_text = Append(batch.log_text,
                                      LogLine("Found image files", 0, Len(images), <<>>)),
                                  !.pc = IF Len(images) >= 1 THEN "poll" ELSE "end"]
    /\ UNCHANGED <<loaded_pipeline, loaded_pipeline_config, cancel_flag, cancel_batch_flag,
                   outputs, preprocessed, batch_outputs, gen, gen_ret, batch_ret, hist, calls_left, fn>>

\* a loop that takes the same image again
NextImageAgain(b) == [b EXCEPT !.pc = "poll"]

\* the next image of the loop of line 634, or the loop's end
NextImage(b) ==
    IF b.k + 1 <= Len(b.images)
    THEN [b EXCEPT !.k = b.k + 1, !.pc = "poll"]
    ELSE [b EXCEPT !.pc = "end"]

\* the stage that follows the saving of the video: lines 698, 709, 733
AfterSave(b, done) ==
    IF b.args.auto_crop /\ done \notin {"prep", "sidecar", "rife"} THEN [b EXCEPT !.pc = "prep"]
    ELSE IF b.args.save_prompt /\ done \notin {"sidecar", "rife"} THEN [b EXCEPT !.pc = "sidecar"]
    ELSE IF b.args.pr_rife_enabled /\ done # "rife" THEN [b EXCEPT !.pc = "rife"]
    ELSE NextImage(b)

\* line 641
BaseOf(image_file) == SplitExt(image_file)[1]

\* lines 642-656: the prompt of an image
PromptContent(b, image_file) ==
    LET present(prompt_name) == \E j \in 1..Len(FolderListing) : FolderListing[j] = prompt_name
        content(text) == IF text # <<>> THEN text ELSE b.args.default_prompt
        read(prompt_name) ==
            IF present(prompt_name)
            THEN Strict(content, StripText(FolderText(prompt_name)))
            ELSE b.args.default_prompt
    IN  Strict(read, BaseOf(image_file) \o TXT)

\* an output name that keeps the extension of the image
OutputNameKeepsExt(image_file) == image_file \o MP4

\* line 658
OutputName(image_file) == BaseOf(image_file) \o MP4

\* lines 635-638
BatchCancelled ==
    /\ batch.pc = "poll"
    /\ CancelRequested(cancel_batch_flag)
    /\ batch' = [batch EXCEPT !.log_text = Append(batch.log_text,
                                  Log("Batch processing cancelled by user.")),
                              !.pc = "end"]
    /\ UNCHANGED <<loaded_pipeline, loaded_pipeline_config, cancel_flag, cancel_batch_flag,
                   outputs, preprocessed, batch_outputs, gen, gen_ret, batch_ret, hist, calls_left, fn>>

\* lines 659-662
BatchSkip ==
    /\ batch.pc = "poll"
    /\ ~CancelRequested(cancel_batch_flag)
    /\ batch.args.skip_overwrite
    /\ OutputName(batch.images[batch.k]) \in batch_outputs
    /\ batch' = NextImage([batch EXCEPT !.log_text = Append(batch.log_text,
                              LogLine("Output video already exists, skipping", 0, 0,
                                      batch.images[batch.k]))])
    /\ UNCHANGED <<loaded_pipeline, loaded_pipeline_config, cancel_flag, cancel_batch_flag,
                   outputs, preprocessed, batch_outputs, gen, gen_ret, batch_ret, hist, calls_left, fn>>

WillProcess ==
    /\ batch.pc = "poll"
    /\ ~CancelRequested(cancel_batch_flag)
    /\ ~(batch.args.skip_overwrite /\ OutputName(batch.images[batch.k]) \in batch_outputs)

\* lines 679-685
BatchOpenFailed ==
    /\ WillProcess
    /\ batch.images[batch.k] \in Unreadable
    /\ batch' = NextImage([batch EXCEPT !.log_text = Append(batch.log_text,
                              LogLine("Failed to open image", 0, 0, batch.images[batch.k]))])
    /\ UNCHANGED <<loaded_pipeline, loaded_pipeline_config, cancel_flag, cancel_batch_flag,
                   outputs, preprocessed, batch_outputs, gen, gen_ret, batch_ret, hist, calls_left, fn>>

\* lines 640-692: prompt, seed, image, pipeline call
BatchInvoke ==
    /\ WillProcess
    /\ batch.images[batch.k] \notin Unreadable
    /\ loaded_pipeline.loaded
    /\ \E seed \in SeedChoices(batch.args.use_random_seed, batch.args.seed_input),
          image_file \in {batch.images[batch.k]},
          prompt_content \in {PromptContent(batch, batch.images[batch.k])} :
            /\ batch' = [batch EXCEPT !.prompt_content = prompt_content,
                                      !.current_seed = seed,
                                      !.output_filename = Path("batch_outputs", OutputName(image_file)),
                                      !.log_text = Append(batch.log_text,
                                          LogLine("Processing", 0, 0, image_file)),
                                      !.pc = "save"]
            /\ hist' = [hist EXCEPT !.calls = hist.calls + 1,
                                    !.trace = Append(hist.trace, <<batch.k, 0>>),
                                    !.call = [seed |-> seed, prompt |-> prompt_content,
                                              image |-> TRUE, pipeline |-> loaded_pipeline,
                                              iteration |-> batch.k, flag |-> cancel_batch_flag]]
    /\ UNCHANGED <<loaded_pipeline, loaded_pipeline_config, cancel_flag, cancel_batch_flag,
                   outputs, preprocessed, batch_outputs, gen, gen_ret, batch_ret, calls_left, fn>>

\* lines 693-695
BatchSaveVideo ==
    /\ batch.pc = "save"
    /\ batch_outputs' = batch_outputs \cup {batch.output_filename.name}
    /\ hist' = [hist EXCEPT !.saves = hist.saves + 1,
                            !.saved = Append(hist.saved, batch.output_filename.name)]
    /\ batch' = AfterSave([batch EXCEPT !.log_text = Append(batch.log_text,
                              LogLine("Saved batch generated video", 0, 0,
                                      batch.output_filename.name))], "save")
    /\ UNCHANGED <<loaded_pipeline, loaded_pipeline_config, cancel_flag, cancel_batch_flag,
                   outputs, preprocessed, gen, gen_ret, batch_ret, calls_left, fn>>

\* lines 698-706
BatchSavePreprocessed ==
    /\ batch.pc = "prep"
    /\ LET image_name == SplitExt(batch.output_filename.name)[1] \o PNG
       IN  /\ preprocessed' = preprocessed \cup {image_name}
           /\ batch' = AfterSave([batch EXCEPT !.log_text = Append(batch.log_text,
                                     LogLine("Saved auto processed image", 0, 0, image_name))],
                                 "prep")
    /\ UNCHANGED <<loaded_pipeline, loaded_pipeline_config, cancel_flag, cancel_batch_flag,
                   outputs, batch_outputs, gen, gen_ret, batch_ret, hist, calls_left, fn>>

\* lines 709-731
BatchSaveSidecar ==
    /\ batch.pc = "sidecar"
    /\ LET text_name == SplitExt(batch.output_filename.name)[1] \o TXT
       IN  /\ batch_outputs' = batch_outputs \cup {text_name}
           /\ hist' = [hist EXCEPT !.sidecar =
                          [path  |-> Path(batch.output_filename.dir, text_name),
                           lines |-> GenerationDetails(batch.args, batch.prompt_content,
                                                       batch.current_seed),
                           seed  |-> batch.current_seed]]
           /\ batch' = AfterSave([batch EXCEPT !.log_text = Append(batch.log_text,
                                     LogLine("Saved prompt and parameters", 0, 0, text_name))],
                                 "sidecar")
    /\ UNCHANGED <<loaded_pipeline, loaded_pipeline_config, cancel_flag, cancel_batch_flag,
                   outputs, preprocessed, gen, gen_ret, batch_ret, calls_left, fn>>

\* lines 733-742
BatchInterpolate ==
    /\ batch.pc = "rife"
    /\ LET improved_name == Improved \o batch.output_filename.name
       IN  /\ batch_outputs' = batch_outputs \cup {improved_name}
           /\ batch' = AfterSave([batch EXCEPT !.log_text = Append(batch.log_text,
                                     LogLine("Applied Practical-RIFE",
                                             MultiplierVal(batch.args.pr_rife_radio), 0,
                                             improved_name))],
                                 "rife")
    /\ UNCHANGED <<loaded_pipeline, loaded_pipeline_config, cancel_flag, cancel_batch_flag,
                   outputs, preprocessed, gen, gen_ret, batch_ret, hist, calls_left, fn>>

\* an end of the batch that returns the log and keeps the pipeline
BatchFinishKeepsPipeline ==
    /\ batch.pc = "end"
    /\ BatchReturn(batch.log_text)
    /\ UNCHANGED <<loaded_pipeline, loaded_pipeline_config, cancel_flag, cancel_batch_flag,
                   outputs, preprocessed, batch_outputs, gen, gen_ret, hist, calls_left, fn>>

\* lines 744-747
BatchFinish ==
    /\ batch.pc = "end"
    /\ Release
    /\ BatchReturn(batch.log_text)
    /\ UNCHANGED <<cancel_flag, cancel_batch_flag, outputs, preprocessed, batch_outputs,
                   gen, gen_ret, hist, calls_left, fn>>

\* lines 750-757
cancel_batch_process ==
    /\ cancel_batch_flag' = TRUE
    /\ UNCHANGED <<loaded_pipeline, loaded_pipeline_config, cancel_flag, outputs,
                   preprocessed, batch_outputs, gen, gen_ret, batch, batch_ret, hist, calls_left, fn>>

-----------------------------------------------------------------------------
(* The application: handlers run one after another, the two cancel buttons
   can be pressed at any moment *)

\* files found in "outputs" when the application starts
InitialOutputs ==
    { {},
      { <<"3">> \o MP4, <<"-", "5">> \o MP4, <<"c", "l", "i", "p">> \o MP4,
        <<"0", "0", "0", "0", "9">> \o TXT } }

\* the batch output folder holds the video of one of the images, made in an
\* earlier session, and no video of the others
InitialBatchOutputs == {<<"c">> \o MP4}

NoFn == [name |-> "", dir |-> {}, ext |-> <<>>, result |-> <<>>, w |-> 0, h |-> 0, tw |-> 0, th |-> 0,
         box |-> <<0, 0, 0, 0>>, size |-> <<0, 0>>,
         opened |-> FALSE, desired |-> 0, available |-> 0, frame_count |-> 0,
         scaled |-> <<0, 0>>, op |-> "", model |-> "", preset |-> "",
         choices |-> <<>>, default_aspect |-> ""]

\* lines 929-933
Init ==
    /\ loaded_pipeline = NoPipeline
    /\ loaded_pipeline_config = EmptyConfig
    /\ cancel_flag = FALSE
    /\ cancel_batch_flag = FALSE
    /\ outputs \in InitialOutputs
    /\ preprocessed = {}
    /\ batch_outputs = InitialBatchOutputs
    /\ gen = IdleGen
    /\ gen_ret = NoReturn
    /\ batch = IdleBatch
    /\ batch_ret = <<>>
    /\ hist = InitHist
    /\ calls_left = MaxRuns
    /\ fn = NoFn

GenStep ==
    \/ GenCheckConfig \/ GenLoadPipeline \/ GenStoreConfig
    \/ GenCancelled \/ GenBeginIteration
    \/ GenInvokeText \/ GenNoImage \/ GenSavePreprocessed \/ GenInvokeImage
    \/ GenSaveVideo \/ GenSaveSidecar \/ GenInterpolate \/ GenFinish

BatchStep ==
    \/ BatchCheckConfig \/ BatchLoadPipeline \/ BatchStoreConfig
    \/ BatchFolderMissing \/ BatchListImages
    \/ BatchCancelled \/ BatchSkip \/ BatchOpenFailed \/ BatchInvoke
    \/ BatchSaveVideo \/ BatchSavePreprocessed \/ BatchSaveSidecar \/ BatchInterpolate
    \/ BatchFinish

Next ==
    \/ \E a \in GenInputs : GenStart(a)
    \/ GenStep
    \/ cancel_generation
    \/ \E a \in BatchInputs : BatchStart(a)
    \/ BatchStep
    \/ cancel_batch_process

Spec == Init /\ [][Next]_vars

-----------------------------------------------------------------------------
(* Several calls in a row, over fewer inputs: every pipeline setting on one
   model, runs of one and of four videos, and the early returns *)

GenInputsSeq ==
    {GenArgs(RADIO_I2V_480P, st, OnePrompt, 1, FALSE, TRUE, FALSE, <<"7">>, NoRife) : st \in Settings}
    \cup {GenArgs(RADIO_T2V_14B, BaseSettings, ThreeLines, 2, TRUE, FALSE, FALSE, <<"7">>, NoRife),
          GenArgs(RADIO_T2V_14B, BaseSettings, OnePrompt, 1, FALSE, FALSE, FALSE, <<"7">>,
                  [enabled |-> TRUE, radio |-> "2x FPS"]),
          GenArgs(RADIO_I2V_480P, BaseSettings, OnePrompt, 1, FALSE, FALSE, FALSE, <<"7">>, NoRife),
          GenArgs(RADIO_OTHER, BaseSettings, OnePrompt, 1, FALSE, TRUE, FALSE, <<"7">>, NoRife)}

BatchInputsSeq ==
    {BatchArgs(RADIO_I2V_480P, st, "missing", TRUE, FALSE, FALSE, NoRife) : st \in Settings}
    \cup {BatchArgs(RADIO_I2V_480P, BaseSettings, "batch_inputs", TRUE, TRUE, TRUE,
                    [enabled |-> TRUE, radio |-> "4x FPS"]),
          BatchArgs(RADIO_T2V_14B, BaseSettings, "batch_inputs", TRUE, FALSE, FALSE, NoRife)}

InitSeq ==
    /\ loaded_pipeline = NoPipeline
    /\ loaded_pipeline_config = EmptyConfig
    /\ cancel_flag = FALSE
    /\ cancel_batch_flag = FALSE
    /\ outputs \in InitialOutputs
    /\ preprocessed = {}
    /\ batch_outputs = {}
    /\ gen = IdleGen
    /\ gen_ret = NoReturn
    /\ batch = IdleBatch
    /\ batch_ret = <<>>
    /\ hist = InitHist
    /\ calls_left = MaxCalls
    /\ fn = NoFn

NextSeq ==
    \/ \E a \in GenInputsSeq : GenStart(a)
    \/ GenStep
    \/ cancel_generation
    \/ \E a \in BatchInputsSeq : BatchStart(a)
    \/ BatchStep
    \/ cancel_batch_process

SpecSeq == InitSeq /\ [][NextSeq]_vars

TypeOK ==
    /\ loaded_pipeline.loaded \in BOOLEAN
    /\ cancel_flag \in BOOLEAN
    /\ cancel_batch_flag \in BOOLEAN
    /\ calls_left \in 0..Max(MaxRuns, MaxCalls)

-----------------------------------------------------------------------------
(* get_next_filename on its own: any small directory, any extension *)

MaxDirFiles == 3    \* files in the directory listed

StemsPool ==
    { <<"0", "0", "0", "0", "1">>, <<"3">>, <<"-", "5">>, <<"+", "2">>, <<"c">>,
      <<"9", "9", "9", "9", "9">>, <<"1", ".", "5">>, <<>> }

FilesPool == {st \o e : st \in StemsPool, e \in {MP4, TXT}}

InitNames ==
    /\ loaded_pipeline = NoPipeline
    /\ loaded_pipeline_config = EmptyConfig
    /\ cancel_flag = FALSE
    /\ cancel_batch_flag = FALSE
    /\ outputs = {}
    /\ preprocessed = {}
    /\ batch_outputs = {}
    /\ gen = IdleGen
    /\ gen_ret = NoReturn
    /\ batch = IdleBatch
    /\ batch_ret = <<>>
    /\ hist = InitHist
    /\ calls_left = 0
    /\ \E d \in SUBSET FilesPool, e \in {MP4, TXT, PNG} :
          /\ Cardinality(d) <= MaxDirFiles
          /\ fn = [NoFn EXCEPT !.name = "input", !.dir = d, !.ext = e]

CallGetNextFilename ==
    /\ fn.name = "input"
    /\ fn' = [fn EXCEPT !.name = "get_next_filename",
                        !.result = get_next_filename(fn.dir, fn.ext)]
    /\ UNCHANGED <<loaded_pipeline, loaded_pipeline_config, cancel_flag, cancel_batch_flag,
                   outputs, preprocessed, batch_outputs, gen, gen_ret, batch, batch_ret,
                   hist, calls_left>>

NextNames == CallGetNextFilename

SpecNames == InitNames /\ [][NextNames]_vars

-----------------------------------------------------------------------------
(* auto_crop_image on its own: any small source and target size *)

MaxDim == 4         \* largest width and height

\* lines 184-200: the crop box (left, upper, right, lower).  Python compares
\* and multiplies the ratios as floats; here w/h and tw/th are compared
\* exactly and int(h * (tw/th)), int(w / (tw/th)) are the exact floors.
CropBox(w, h, target_width, target_height) ==
    IF w * target_height > target_width * h
    THEN LET new_width == (h * target_width) \div target_height
             left == (w - new_width) \div 2
         IN  <<left, 0, left + new_width, h>>
    ELSE IF w * target_height < target_width * h
    THEN LET new_height == (w * target_height) \div target_width
             top == (h - new_height) \div 2
         IN  <<0, top, w, top + new_height>>
    ELSE <<0, 0, w, h>>

InitCrop ==
    /\ loaded_pipeline = NoPipeline
    /\ loaded_pipeline_config = EmptyConfig
    /\ cancel_flag = FALSE
    /\ cancel_batch_flag = FALSE
    /\ outputs = {}
    /\ preprocessed = {}
    /\ batch_outputs = {}
    /\ gen = IdleGen
    /\ gen_ret = NoReturn
    /\ batch = IdleBatch
    /\ batch_ret = <<>>
    /\ hist = InitHist
    /\ calls_left = 0
    /\ \E w \in 1..MaxDim, h \in 1..MaxDim, tw \in 1..MaxDim, th \in 1..MaxDim :
          fn = [NoFn EXCEPT !.name = "input", !.w = w, !.h = h, !.tw = tw, !.th = th]

\* lines 178-204: crop, then resize.  What PIL's resize does with an empty
\* crop is not part of this source: it either fails or returns an image.
auto_crop_image ==
    /\ fn.name = "input"
    /\ LET box == CropBox(fn.w, fn.h, fn.tw, fn.th)
           empty == box[3] <= box[1] \/ box[4] <= box[2]
       IN  \E outcome \in (IF empty THEN {"auto_crop_image", "auto_crop_image raised"}
                                   ELSE {"auto_crop_image"}) :
              fn' = [fn EXCEPT !.name = outcome,
                               !.box = box,
                               !.size = IF outcome = "auto_crop_image"
                                        THEN <<fn.tw, fn.th>> ELSE <<0, 0>>]
    /\ UNCHANGED <<loaded_pipeline, loaded_pipeline_config, cancel_flag, cancel_batch_flag,
                   outputs, preprocessed, batch_outputs, gen, gen_ret, batch, batch_ret,
                   hist, calls_left>>

NextCrop == auto_crop_image

SpecCrop == InitCrop /\ [][NextCrop]_vars

-----------------------------------------------------------------------------
(* auto_crop_video on its own: any small frame and target size, a few frames *)

MaxFrames == 2      \* frames asked for, and frames the input video holds

VideoPath == <<"v", ".", "a", "v", "i">>

\* line 232-233
CroppedPath(video_path) == SplitExt(video_path)[1] \o <<"_", "c", "r", "o", "p", "p", "e", "d">> \o MP4

\* lines 227-229: scale = min(1.0, tw/ow, th/oh) and the intermediate size
\* int(ow * scale) x int(oh * scale), computed exactly; scale < 1.0 exactly
\* when the frame exceeds the target in a dimension
ScaleBelowOne(ow, oh, tw, th) == tw < ow \/ th < oh

ScaledSize(ow, oh, tw, th) ==
    IF ~ScaleBelowOne(ow, oh, tw, th) THEN <<ow, oh>>
    ELSE IF tw * oh <= th * ow
    THEN <<tw, (oh * tw) \div ow>>
    ELSE <<(ow * th) \div oh, th>>

\* the length of a[start:stop] for an axis of length len
SliceLen(len, start, stop) ==
    LET clip(x) == IF x < 0 THEN Max(len + x, 0) ELSE IF x > len THEN len ELSE x
    IN  Max(clip(stop) - clip(start), 0)

InitVideo ==
    /\ loaded_pipeline = NoPipeline
    /\ loaded_pipeline_config = EmptyConfig
    /\ cancel_flag = FALSE
    /\ cancel_batch_flag = FALSE
    /\ outputs = {}
    /\ preprocessed = {}
    /\ batch_outputs = {}
    /\ gen = IdleGen
    /\ gen_ret = NoReturn
    /\ batch = IdleBatch
    /\ batch_ret = <<>>
    /\ hist = InitHist
    /\ calls_left = 0
    /\ \E w \in 1..MaxDim, h \in 1..MaxDim, tw \in 1..MaxDim, th \in 1..MaxDim,
          opened \in BOOLEAN, desired \in 0..MaxFrames, available \in 0..MaxFrames :
          /\ (~opened => available = 0)
          /\ fn = [NoFn EXCEPT !.name = "input", !.w = w, !.h = h, !.tw = tw, !.th = th,
                               !.opened = opened, !.desired = desired,
                               !.available = available, !.result = VideoPath]

UnchangedButFn ==
    UNCHANGED <<loaded_pipeline, loaded_pipeline_config, cancel_flag, cancel_batch_flag,
                outputs, preprocessed, batch_outputs, gen, gen_ret, batch, batch_ret,
                hist, calls_left>>

\* lines 217-221: the video cannot be opened, its own path is returned
AutoCropVideoNotOpened ==
    /\ fn.name = "input" /\ ~fn.opened
    /\ fn' = [fn EXCEPT !.name = "auto_crop_video returned"]
    /\ UnchangedButFn

\* lines 222-239: the scale and the intermediate size, once for the video
AutoCropVideoOpen ==
    /\ fn.name = "input" /\ fn.opened
    /\ fn' = [fn EXCEPT !.name = "auto_crop_video loop",
                        !.scaled = ScaledSize(fn.w, fn.h, fn.tw, fn.th),
                        !.frame_count = 0]
    /\ UnchangedButFn

\* lines 240-258: one frame.  cv2.resize to a size with a zero side raises.
AutoCropVideoFrame ==
    /\ fn.name = "auto_crop_video loop"
    /\ fn.frame_count < fn.desired /\ fn.frame_count < fn.available
    /\ LET w == fn.scaled[1]
           h == fn.scaled[2]
           left == (w - fn.tw) \div 2
           top == (h - fn.th) \div 2
       IN  IF ScaleBelowOne(fn.w, fn.h, fn.tw, fn.th) /\ (w = 0 \/ h = 0)
           THEN fn' = [fn EXCEPT !.name = "auto_crop_video raised", !.op = "raised"]
           ELSE IF w > fn.tw \/ h > fn.th
           THEN fn' = [fn EXCEPT !.op = "crop",
                                 !.box = <<left, top, left + fn.tw, top + fn.th>>,
                                 !.size = <<SliceLen(w, left, left + fn.tw),
                                            SliceLen(h, top, top + fn.th)>>,
                                 !.frame_count = fn.frame_count + 1]
           ELSE fn' = [fn EXCEPT !.op = "resize",
                                 !.box = <<0, 0, w, h>>,
                                 !.size = <<fn.tw, fn.th>>,
                                 !.frame_count = fn.frame_count + 1]
    /\ UnchangedButFn

\* lines 240-244, 259-263: enough frames, or no more frames; the path of the
\* new file is returned
AutoCropVideoReturn ==
    /\ fn.name = "auto_crop_video loop"
    /\ (fn.frame_count >= fn.desired \/ fn.frame_count >= fn.available)
    /\ fn' = [fn EXCEPT !.name = "auto_crop_video returned",
                        !.result = CroppedPath(fn.result)]
    /\ UnchangedButFn

NextVideo ==
    \/ AutoCropVideoNotOpened
    \/ AutoCropVideoOpen
    \/ AutoCropVideoFrame
    \/ AutoCropVideoReturn

SpecVideo == InitVideo /\ [][NextVideo]_vars

-----------------------------------------------------------------------------
(* update_vram_and_resolution on its own *)

\* lines 23-35 and 37-51: the keys of the two tables, in their order
ASPECT_RATIOS_1_3b ==
    <<"1:1", "4:3", "3:4", "3:2", "2:3", "16:9", "9:16", "21:9", "9:21", "4:5", "5:4">>

ASPECT_RATIOS_14b ==
    <<"1:1", "4:3", "3:4", "3:2", "2:3", "16:9", "16:9_low", "9:16", "9:16_low",
      "21:9", "9:21", "4:5", "5:4">>

\* the keys of every mapping, in their order
PresetOrder == <<"4GB", "6GB", "8GB", "10GB", "12GB", "16GB", "24GB", "32GB", "48GB", "80GB">>

Presets == {PresetOrder[k] : k \in 1..Len(PresetOrder)}

PresetIndex(preset) == CHOOSE k \in 1..Len(PresetOrder) : PresetOrder[k] = preset

\* a decimal text: the leading digits followed by k zeros
Dec(lead, k) == lead \o Zeros(k)

MappingOf(values) == [preset \in Presets |-> values[PresetIndex(preset)]]

\* lines 60-71
Mapping_1_3B ==
    MappingOf(<< <<"0">>, Dec(<<"5">>, 8), Dec(<<"1">>, 9), Dec(<<"7">>, 9), Dec(<<"7">>, 9),
                 Dec(<<"7">>, 9), Dec(<<"7">>, 9), Dec(<<"7">>, 9), Dec(<<"1", "2">>, 9),
                 Dec(<<"1", "2">>, 9) >>)

\* lines 75-86
Mapping_T2V_14B ==
    MappingOf(<< <<"0">>, <<"0">>, <<"0">>, <<"0">>, <<"0">>, <<"0">>, Dec(<<"3">>, 9),
                 Dec(<<"6", "5">>, 8), Dec(<<"2", "2">>, 9), Dec(<<"7">>, 10) >>)

\* lines 90-101
Mapping_I2V_720P ==
    MappingOf(<< <<"0">>, <<"0">>, <<"0">>, <<"0">>, <<"0">>, <<"0">>, <<"0">>,
                 Dec(<<"3", "5">>, 8), Dec(<<"1", "2">>, 9), Dec(<<"7">>, 10) >>)

\* lines 105-116
Mapping_I2V_480P ==
    MappingOf(<< <<"0">>, <<"0">>, <<"0">>, <<"0">>, <<"0">>, Dec(<<"1", "2">>, 8),
                 Dec(<<"5">>, 9), Dec(<<"9", "5">>, 8), Dec(<<"2">>, 10), Dec(<<"7">>, 10) >>)

\* lines 120-131
Mapping_Else ==
    MappingOf(<< <<"0">>, <<"0">>, <<"0">>, <<"0">>, <<"0">>, <<"0">>, <<"0">>,
                 Dec(<<"1", "2">>, 9), Dec(<<"1", "2">>, 9), Dec(<<"7">>, 10) >>)

\* the branch taken for a model: its mapping and its table of aspect ratios
VramBranch(model_choice) ==
    CASE model_choice = RADIO_1_3B     -> [mapping |-> Mapping_1_3B, resolution_choices |-> ASPECT_RATIOS_1_3b]
      [] model_choice = RADIO_T2V_14B  -> [mapping |-> Mapping_T2V_14B, resolution_choices |-> ASPECT_RATIOS_14b]
      [] model_choice = RADIO_I2V_720P -> [mapping |-> Mapping_I2V_720P, resolution_choices |-> ASPECT_RATIOS_14b]
      [] model_choice = RADIO_I2V_480P -> [mapping |-> Mapping_I2V_480P, resolution_choices |-> ASPECT_RATIOS_1_3b]
      [] OTHER                         -> [mapping |-> Mapping_Else, resolution_choices |-> ASPECT_RATIOS_14b]

DictGetOrZero(mapping, key) ==
    IF key \in DOMAIN mapping THEN mapping[key] ELSE <<"0">>

\* mapping.get(preset, "12000000000")
DictGet(mapping, key) ==
    IF key \in DOMAIN mapping THEN mapping[key] ELSE Dec(<<"1", "2">>, 9)

\* presets that are not keys of the mappings
OtherPresets == {"2GB", "96GB", "4gb", ""}

InitVram ==
    /\ loaded_pipeline = NoPipeline
    /\ loaded_pipeline_config = EmptyConfig
    /\ cancel_flag = FALSE
    /\ cancel_batch_flag = FALSE
    /\ outputs = {}
    /\ preprocessed = {}
    /\ batch_outputs = {}
    /\ gen = IdleGen
    /\ gen_ret = NoReturn
    /\ batch = IdleBatch
    /\ batch_ret = <<>>
    /\ hist = InitHist
    /\ calls_left = 0
    /\ \E model_choice \in ModelRadios \cup {RADIO_OTHER}, preset \in Presets \cup OtherPresets :
          fn = [NoFn EXCEPT !.name = "input", !.model = model_choice, !.preset = preset]

\* lines 54-134
update_vram_and_resolution ==
    /\ fn.name = "input"
    /\ LET branch == VramBranch(fn.model)
       IN  fn' = [fn EXCEPT !.name = "update_vram_and_resolution",
                            !.result = DictGet(branch.mapping, fn.preset),
                            !.choices = branch.resolution_choices,
                            !.default_aspect = "16:9"]
    /\ UnchangedButFn

NextVram == update_vram_and_resolution

SpecVram == InitVram /\ [][NextVram]_vars

-----------------------------------------------------------------------------
(* The handlers run to their return: every call they make to the pipeline,
   the video writer and the interpolation subprocess returns, so a run that
   has a next step takes it *)

\* runs of every length, with and without interpolation, and the early returns
GenInputsLive ==
    {GenArgs(RADIO_T2V_14B, BaseSettings, pi, n, TRUE, FALSE, FALSE, <<>>, rife) :
        pi \in {OnePrompt, ThreeLines}, n \in NumGenerations,
        rife \in {NoRife, [enabled |-> TRUE, radio |-> "2x FPS"]}}
    \cup {GenArgs(RADIO_I2V_480P, BaseSettings, OnePrompt, 1, FALSE, image, FALSE, <<>>,
                  [enabled |-> TRUE, radio |-> "4x FPS"]) : image \in BOOLEAN}
    \cup {GenArgs(RADIO_OTHER, BaseSettings, OnePrompt, 1, FALSE, TRUE, FALSE, <<>>, NoRife)}

BatchInputsLive ==
    {BatchArgs(RADIO_I2V_480P, BaseSettings, "batch_inputs", skip, all, all,
               [enabled |-> all, radio |-> "4x FPS"]) : skip \in BOOLEAN, all \in BOOLEAN}
    \cup {BatchArgs(RADIO_I2V_480P, BaseSettings, "missing", TRUE, FALSE, FALSE, NoRife),
          BatchArgs(RADIO_T2V_14B, BaseSettings, "batch_inputs", TRUE, FALSE, FALSE, NoRife)}

InitLive ==
    /\ loaded_pipeline = NoPipeline
    /\ loaded_pipeline_config = EmptyConfig
    /\ cancel_flag = FALSE
    /\ cancel_batch_flag = FALSE
    /\ outputs = {}
    /\ preprocessed = {}
    /\ batch_outputs = InitialBatchOutputs
    /\ gen = IdleGen
    /\ gen_ret = NoReturn
    /\ batch = IdleBatch
    /\ batch_ret = <<>>
    /\ hist = InitHist
    /\ calls_left = MaxRuns
    /\ fn = NoFn

NextLive ==
    \/ \E a \in GenInputsLive : GenStart(a)
    \/ GenStep
    \/ cancel_generation
    \/ \E a \in BatchInputsLive : BatchStart(a)
    \/ BatchStep
    \/ cancel_batch_process

SpecLive == InitLive /\ [][NextLive]_vars /\ WF_vars(GenStep) /\ WF_vars(BatchStep)

-----------------------------------------------------------------------------
(* Two handlers at once: the interface is launched at line 1107 without a
   lock around the handlers, so a generate_videos run and a
   batch_process_videos run can overlap, as a run and a cancel button do;
   both work on the globals of lines 929-933 *)

\* what the interface shows when a handler raises
Raised == <<Log("TypeError: 'NoneType' object is not callable")>>

\* lines 455, 457, 459, 483 when loaded_pipeline is None: the call raises and
\* the handler is left without reaching its release
GenInvokeRaises ==
    /\ \/ gen.pc = "body" /\ gen.model_choice \in {"1.3B", "14B_text"}
       \/ gen.pc = "invoke"
    /\ ~loaded_pipeline.loaded
    /\ GenReturn(NoPath, Raised, NoSeed)
    /\ UNCHANGED <<loaded_pipeline, loaded_pipeline_config, cancel_flag, cancel_batch_flag,
                   outputs, preprocessed, batch_outputs, batch, batch_ret, hist, calls_left, fn>>

\* line 692 when loaded_pipeline is None
BatchInvokeRaises ==
    /\ WillProcess
    /\ batch.images[batch.k] \notin Unreadable
    /\ ~loaded_pipeline.loaded
    /\ BatchReturn(Raised)
    /\ UNCHANGED <<loaded_pipeline, loaded_pipeline_config, cancel_flag, cancel_batch_flag,
                   outputs, preprocessed, batch_outputs, gen, gen_ret, hist, calls_left, fn>>

\* a text model for two videos, an image model with and without its image
GenInputsPar ==
    {GenArgs(RADIO_T2V_14B, BaseSettings, OnePrompt, 2, TRUE, FALSE, FALSE, <<>>,
             [enabled |-> TRUE, radio |-> "2x FPS"])}
    \cup {GenArgs(RADIO_I2V_480P, BaseSettings, OnePrompt, 1, FALSE, image, FALSE, <<>>, NoRife) :
            image \in BOOLEAN}

\* a batch on the same image model, one on a folder that does not exist
BatchInputsPar ==
    {BatchArgs(RADIO_I2V_480P, BaseSettings, "batch_inputs", TRUE, TRUE, TRUE,
               [enabled |-> TRUE, radio |-> "4x FPS"]),
     BatchArgs(RADIO_I2V_720P, BaseSettings, "missing", TRUE, FALSE, FALSE, NoRife)}

InitPar ==
    /\ loaded_pipeline = NoPipeline
    /\ loaded_pipeline_config = EmptyConfig
    /\ cancel_flag = FALSE
    /\ cancel_batch_flag = FALSE
    /\ outputs = {}
    /\ preprocessed = {}
    /\ batch_outputs = InitialBatchOutputs
    /\ gen = IdleGen
    /\ gen_ret = NoReturn
    /\ batch = IdleBatch
    /\ batch_ret = <<>>
    /\ hist = InitHist
    /\ calls_left = MaxCalls
    /\ fn = NoFn

NextPar ==
    \/ \E a \in GenInputsPar : GenEnter(a)
    \/ GenStep
    \/ GenInvokeRaises
    \/ cancel_generation
    \/ \E a \in BatchInputsPar : BatchEnter(a)
    \/ BatchStep
    \/ BatchInvokeRaises
    \/ cancel_batch_process

SpecPar == InitPar /\ [][NextPar]_vars

-----------------------------------------------------------------------------
(* batch_process_videos on an output folder that holds, from earlier
   sessions, the videos of any of the images of the input folder *)

\* the videos an earlier session can have left for the images listed
EarlierVideos ==
    LET images == ImagesOf(FolderListing)
    IN  {SplitExt(images[j])[1] \o MP4 : j \in 1..Len(images)}

\* both states of the skip checkbox of line 1029, with and without the files
\* written beside the video; a folder that does not exist
BatchInputsSkip ==
    {BatchArgs(RADIO_I2V_480P, BaseSettings, "batch_inputs", skip, all, all,
               [enabled |-> all, radio |-> "2x FPS"]) : skip \in BOOLEAN, all \in BOOLEAN}
    \cup {BatchArgs(RADIO_I2V_720P, BaseSettings, "missing", TRUE, FALSE, FALSE, NoRife)}

InitSkip ==
    /\ loaded_pipeline = NoPipeline
    /\ loaded_pipeline_config = EmptyConfig
    /\ cancel_flag = FALSE
    /\ cancel_batch_flag = FALSE
    /\ outputs = {}
    /\ preprocessed = {}
    /\ batch_outputs \in SUBSET EarlierVideos
    /\ gen = IdleGen
    /\ gen_ret = NoReturn
    /\ batch = IdleBatch
    /\ batch_ret = <<>>
    /\ hist = InitHist
    /\ calls_left = MaxRuns
    /\ fn = NoFn

NextSkip ==
    \/ \E a \in BatchInputsSkip : BatchStart(a)
    \/ BatchStep
    \/ cancel_batch_process

SpecSkip == InitSkip /\ [][NextSkip]_vars

-----------------------------------------------------------------------------
(* Claims *)

ConfigFields == {"model_choice", "torch_dtype", "num_persistent", "lora_model", "lora_alpha"}

LoopPcs == {"poll", "body", "invoke", "save", "sidecar", "post", "finish"}

\* C1 as stated: across consecutive generate_videos calls, a call whose configuration
\* record equals that of the immediately preceding completed call does not
\* load the pipeline again.
C1_NoReloadWhenUnchanged ==
    (gen.pc \in LoopPcs /\ gen.current_config = hist.prev_config) => hist.loads = 0

\* the step that leaves the reload test goes to the load if and only if no
\* pipeline is held or one of the five fields differs
C2_Decision(frame, frame2) ==
    (frame.pc = "check" /\ frame2.pc # "check") =>
        ((frame2.pc = "load") <=>
            (\/ ~loaded_pipeline.loaded
             \/ \E f \in ConfigFields : loaded_pipeline_config[f] # frame.current_config[f]))

C2_Loaded(frame, after) ==
    /\ frame.pc = "load" => hist.loads = 0
    /\ frame.pc = "setcfg" => hist.loads = 1 /\ loaded_pipeline = load_wan_pipeline(frame.current_config)
    /\ frame.pc \in after =>
          /\ hist.loads \in {0, 1}
          /\ loaded_pipeline_config = frame.current_config
          /\ loaded_pipeline = load_wan_pipeline(frame.current_config)

\* C2: at the start of a generate_videos or batch_process_videos run that
\* passed the model validation, load_wan_pipeline is invoked if and only if no
\* pipeline is held or the stored configuration differs from the run's in one
\* of the five fields; it is invoked at most once, and from then on the held
\* pipeline and the stored configuration are the run's.
C2_ReloadIffChanged ==
    /\ [][C2_Decision(gen, gen') /\ C2_Decision(batch, batch')]_vars
    /\ [](C2_Loaded(gen, LoopPcs) /\ C2_Loaded(batch, {"folder", "poll", "save", "prep", "sidecar", "rife"}))

\* C2 witness: a run found the pipeline of an earlier run and kept it
C2_Kept ==
    gen.pc = "poll" /\ hist.loads = 0 /\ loaded_pipeline.loaded

\* a run reloads because the LoRA scale alone differs from the stored one
C2_ScaleAlone ==
    /\ gen.pc = "load" /\ loaded_pipeline.loaded
    /\ [loaded_pipeline_config EXCEPT !.lora_alpha = 0] = [gen.current_config EXCEPT !.lora_alpha = 0]


\* the number of non-blank lines of a text
NonBlankLines(text) ==
    Cardinality({k \in 1..Len(text) : \E j \in 1..Len(text[k]) : text[k][j] # " "})

\* P of a run: 1 in single-prompt mode, the non-blank lines in multi-line mode
PromptCount(a) == IF a.multi_line THEN NonBlankLines(a.prompt) ELSE 1

\* the iterations of a prompt-major loop over P prompts and N repetitions
PromptMajor(P, N) == [k \in 1..(P * N) |-> <<((k - 1) \div N) + 1, (k - 1) % N>>]

GeneratingLines(log) == SelectSeq(log, LAMBDA e : e.tag = "Generating video")

\* what a run whose loop has ended has done, for a loop of P x N iterations
LoopDone(P, N) ==
    /\ hist.calls = P * N
    /\ hist.saves = P * N
    /\ Len(hist.saved) = P * N
    /\ hist.trace = PromptMajor(P, N)
    /\ LET lines == GeneratingLines(gen.log_text)
       IN  /\ Len(lines) = P * N
           /\ \A k \in 1..Len(lines) : lines[k].it = k

\* C3 as stated: a run that is neither cancelled nor stopped by an error
\* invokes the pipeline and saves a video exactly P x N times, N being
\* num_generations, prompt-major, with the logged counter running 1 .. P x N.
C3_ExactlyPTimesN ==
    gen.pc \in {"post", "finish"} =>
        LoopDone(PromptCount(gen.args), gen.args.num_generations)

\* C3 amended: a run that is neither cancelled nor stopped by an error
\* invokes the pipeline and saves a video exactly P x max(N, 0) times,
\* prompt-major, with the logged counter running 1 .. P x max(N, 0).
C3_ExactlyPTimesMaxN0 ==
    gen.pc \in {"post", "finish"} =>
        LoopDone(PromptCount(gen.args), Max(gen.args.num_generations, 0))

\* C3 witness: two prompts, two generations each, all four done
C3_FourDone ==
    /\ gen.pc = "post" /\ hist.calls = 4
    /\ gen.args.multi_line /\ gen.args.num_generations = 2


IterationPcs == {"body", "invoke", "save", "sidecar"}

ImageChoices == {"14B_image_720p", "14B_image_480p"}

CancelledLog(log) == \E k \in 1..Len(log) : log[k].tag = "Generation cancelled by user."

\* what each step of generate_videos does with the poll and after it
C4_Step ==
    gen' # gen =>
        /\ gen.pc = "poll" => hist'.polls = hist.polls + 1
        /\ gen.pc \in IterationPcs \cup {"check", "load", "setcfg", "post", "finish"} =>
              hist'.polls = hist.polls
        /\ (gen.pc = "poll" /\ cancel_flag) =>
              /\ gen'.pc = "idle"
              /\ gen_ret'.video = NoPath /\ CancelledLog(gen_ret'.log)
              /\ hist'.calls = hist.calls /\ hist'.saves = hist.saves
              /\ outputs' = outputs /\ preprocessed' = preprocessed
        /\ (gen.pc = "poll" /\ ~cancel_flag) =>
              gen'.pc = "body" /\ gen'.iteration = gen.iteration + 1
        /\ (gen.pc = "body" /\ (gen.model_choice \in ImageChoices => gen.args.input_image)) =>
              gen'.pc \in {"invoke", "save"}
        /\ gen.pc = "invoke" => gen'.pc = "save" /\ hist'.calls = hist.calls + 1
        /\ gen.pc = "save" =>
              /\ gen.video_filename.name \in outputs'
              /\ gen.args.save_prompt => gen'.pc = "sidecar"
        /\ gen.pc = "sidecar" => hist'.sidecar.path.name \in outputs'
        /\ gen'.pc = "idle" /\ gen.pc # "idle" /\ CancelledLog(gen_ret'.log) => gen.pc = "poll"

\* C4: in generate_videos the cancel flag is read once per iteration, at its
\* start: if set, the run returns at once without invoking the pipeline or
\* writing a file; whatever the flag is after the poll, the iteration goes on
\* to its pipeline call, its video and its sidecar.
C4_PolledOncePerIteration ==
    /\ [][C4_Step]_vars
    /\ [](gen.pc \in IterationPcs => hist.polls = gen.iteration)

\* C4 witness: the flag was set while the pipeline ran, and the iteration has
\* saved its video and its sidecar all the same
C4_SetAfterPoll ==
    /\ gen.pc = "poll" /\ cancel_flag /\ hist.call.flag
    /\ gen.iteration >= 1 /\ hist.saves = gen.iteration
    /\ gen.last_video_path.name \in outputs
    /\ hist.sidecar.path.name \in outputs

IntegerStem(f) == ParseInt(SubSeq(f, 1, Len(f) - Len(MP4)))

Videos(dir) == {f \in dir : EndsWith(f, MP4)}

\* no file leaves the directory, and the step that saves a video adds a new
\* name whose number exceeds that of every video present
C6_Step ==
    /\ outputs \subseteq outputs'
    /\ (gen.pc = "save" /\ gen' # gen) =>
          LET name == gen.video_filename.name
          IN  /\ name \notin outputs
              /\ outputs' = outputs \cup {name}
              /\ IntegerStem(name).ok
              /\ \A f \in Videos(outputs) :
                    IntegerStem(f).ok => IntegerStem(f).val < IntegerStem(name).val

\* C6: every video saved by generate_videos gets a name that no file of the
\* outputs directory has, its number is larger than the number of every video
\* present, and no file of the directory is overwritten or removed.
C6_FreshIncreasingNames ==
    /\ [][C6_Step]_vars
    /\ [](gen.pc # "idle" =>
            \A j \in 1..Len(hist.saved), k \in 1..Len(hist.saved) :
                j < k => IntegerStem(hist.saved[j]).val < IntegerStem(hist.saved[k]).val)

\* C6 witness: a later run has saved a video next to the videos of an earlier run
C6_SecondRunSaved ==
    /\ gen.pc # "idle" /\ calls_left = 0 /\ Len(hist.saved) >= 1
    /\ \E f \in Videos(outputs) :
          /\ Len(f) = 9 /\ IntegerStem(f).ok
          /\ \A k \in 1..Len(hist.saved) : hist.saved[k] # f


Range(seq) == {seq[k] : k \in 1..Len(seq)}

LastSaved == hist.saved[Len(hist.saved)]

SidecarPathOf(video_name) == Path("outputs", SubSeq(video_name, 1, Len(video_name) - Len(MP4)) \o TXT)

\* C7: in generate_videos a sidecar <base>.txt is written next to a saved
\* video if and only if save_prompt is enabled, after the video is saved; it
\* consists only of "Key: value" lines with the eleven keys, and its Seed is
\* the seed passed to the pipeline for that video.
C7_SidecarKeyValueLines ==
    gen.pc # "idle" =>
        /\ (gen.pc \in {"poll", "post"} /\ hist.saves >= 1) =>
              (gen.args.save_prompt <=> hist.sidecar.path = SidecarPathOf(LastSaved))
        /\ gen.pc = "sidecar" => LastSaved \in outputs
        /\ hist.sidecar.path # NoPath =>
              /\ \E k \in 1..Len(hist.saved) :
                    /\ hist.sidecar.path = SidecarPathOf(hist.saved[k])
                    /\ hist.saved[k] \in outputs
              /\ \A k \in 1..Len(hist.sidecar.lines) :
                    hist.sidecar.lines[k].key \in Range(SidecarKeys)
              /\ \E k \in 1..Len(hist.sidecar.lines) :
                    /\ hist.sidecar.lines[k].key = "Seed"
                    /\ hist.sidecar.lines[k].val = <<hist.call.seed>>

RecognizedRadios ==
    {"WAN 2.1 1.3B (Text/Video-to-Video)", "WAN 2.1 14B Text-to-Video",
     "WAN 2.1 14B Image-to-Video 720P", "WAN 2.1 14B Image-to-Video 480P"}

BatchRadios == {"WAN 2.1 14B Image-to-Video 720P", "WAN 2.1 14B Image-to-Video 480P"}

RejectedAtOnce ==
    /\ gen'.pc = "idle" /\ batch'.pc = "idle"
    /\ hist'.loads = 0 /\ hist'.calls = 0 /\ hist'.saves = 0
    /\ UNCHANGED <<loaded_pipeline, loaded_pipeline_config, outputs, preprocessed, batch_outputs>>

\* the call with an unsupported model is a single step back to idle
C8_Step ==
    /\ \A a \in GenInputsSeq :
          (GenStart(a) /\ a.model_choice_radio \notin RecognizedRadios) =>
              /\ RejectedAtOnce
              /\ gen_ret'.video = NoPath
              /\ gen_ret'.log = <<Log("Invalid model choice.")>>
    /\ \A a \in BatchInputsSeq :
          (BatchStart(a) /\ a.model_choice_radio \notin BatchRadios) =>
              /\ RejectedAtOnce
              /\ Len(batch_ret') = 1

NoImageError == <<Log("Error: Image model selected but no image provided.")>>

\* a generate_videos call with an image-to-video model and no image returns
NoImageReturn ==
    /\ gen.pc # "idle" /\ gen'.pc = "idle"
    /\ gen.model_choice \in ImageChoices /\ ~gen.args.input_image

\* nothing invoked, no file name allocated, no file written, pipeline released
NothingDone ==
    /\ gen_ret'.video = NoPath
    /\ hist'.calls = 0 /\ hist'.saves = 0 /\ hist'.sidecar = NoSidecar
    /\ gen.video_filename = NoPath
    /\ \A k \in 1..Len(gen.log_text) : gen.log_text[k].tag = "Generating video"
    /\ outputs' = outputs /\ preprocessed' = preprocessed
    /\ loaded_pipeline' = NoPipeline /\ loaded_pipeline_config' = EmptyConfig

\* C9 as stated: generate_videos called with an image-to-video model and no
\* image returns an empty video path with the error message "Image model
\* selected but no image provided", without invoking the pipeline, allocating
\* a file name or writing a file, and releases the pipeline.
C9_NoImageAlwaysError ==
    [][NoImageReturn => (NothingDone /\ gen_ret'.log = NoImageError)]_vars

\* C9 amended: such a call returns an empty video path without invoking the
\* pipeline, allocating a file name or writing a file, and releases the
\* pipeline; its message is the error exactly when the run begins an
\* iteration, otherwise the ordinary completion or cancellation log.
C9_NoImageErrorOnceIterating ==
    [][NoImageReturn =>
          /\ NothingDone
          /\ gen_ret'.log = NoImageError <=> gen.iteration >= 1
          /\ gen.iteration >= 1 <=>
                (PromptCount(gen.args) >= 1 /\ gen.args.num_generations >= 1 /\ gen.pc = "body")]_vars

\* C9 witness: the error was returned and the pipeline released
C9_ErrorReturned ==
    /\ gen.pc = "idle" /\ gen_ret.log = NoImageError /\ gen_ret.video = NoPath
    /\ ~loaded_pipeline.loaded /\ loaded_pipeline_config = EmptyConfig
    /\ hist.loads = 1

\* C5: get_next_filename(ext) returns <n><ext>, n being 1 plus the largest
\* integer stem among the files of the directory that end with ext (1 when
\* there is none), in decimal zero-padded to at least five digits; the name
\* returned is not the name of a file of the directory.
C5_NextNumberFiveDigits ==
    fn.name = "get_next_filename" =>
        LET stems == {SubSeq(f, 1, Len(f) - Len(fn.ext)) : f \in {g \in fn.dir : EndsWith(g, fn.ext)}}
            ints  == {ParseInt(st).val : st \in {t \in stems : ParseInt(t).ok}}
            n     == IF ints = {} THEN 1 ELSE SetMax(ints) + 1
            stem  == SubSeq(fn.result, 1, Len(fn.result) - Len(fn.ext))
            zeros == CHOOSE z \in 0..Len(stem) :
                        /\ \A k \in 1..z : stem[k] = "0"
                        /\ (z < Len(stem) => stem[z + 1] # "0")
        IN  /\ EndsWith(fn.result, fn.ext)
            /\ ParseInt(stem).ok /\ ParseInt(stem).val = n
            /\ Len(SelectSeq(stem, IsDigit)) >= 5
            /\ (Len(stem) > 5 => zeros = 0)
            /\ fn.result \notin fn.dir

\* C10: auto_crop_image returns an image of exactly the target size; its crop
\* is a non-empty box inside the source, centred within one pixel, that
\* removes only columns when w/h > tw/th, only rows when w/h < tw/th and
\* nothing when the ratios are equal, the cropped extent being
\* floor(h*tw/th) columns or floor(w*th/tw) rows.
C10_CropThenExactSize ==
    fn.name \in {"auto_crop_image", "auto_crop_image raised"} =>
        LET left == fn.box[1]  upper == fn.box[2]  right == fn.box[3]  lower == fn.box[4]
            wide == fn.w * fn.th > fn.tw * fn.h
            tall == fn.w * fn.th < fn.tw * fn.h
        IN  /\ fn.name = "auto_crop_image" /\ fn.size = <<fn.tw, fn.th>>
            /\ 0 <= left /\ left < right /\ right <= fn.w
            /\ 0 <= upper /\ upper < lower /\ lower <= fn.h
            /\ (fn.w - right) - left \in {0 - 1, 0, 1}
            /\ (fn.h - lower) - upper \in {0 - 1, 0, 1}
            /\ wide => upper = 0 /\ lower = fn.h /\ right - left = (fn.h * fn.tw) \div fn.th
            /\ tall => left = 0 /\ right = fn.w /\ lower - upper = (fn.w * fn.th) \div fn.tw
            /\ (~wide /\ ~tall) => fn.box = <<0, 0, fn.w, fn.h>>

\* C11: every frame written by auto_crop_video has exactly the target size,
\* and a frame whose aspect ratio differs from the target's and that exceeds
\* the target in a dimension is written as a centre crop of its downscaled
\* content, a box of the target size with margins equal within one pixel,
\* not as a resize of the whole frame to the target.
C11_FrameCentreCropped ==
    (fn.name \in {"auto_crop_video loop", "auto_crop_video returned"} /\ fn.frame_count >= 1) =>
        /\ fn.size = <<fn.tw, fn.th>>
        /\ (fn.w * fn.th # fn.tw * fn.h /\ (fn.w > fn.tw \/ fn.h > fn.th)) =>
              /\ fn.op = "crop"
              /\ fn.box[3] - fn.box[1] = fn.tw /\ fn.box[4] - fn.box[2] = fn.th
              /\ 0 <= fn.box[1] /\ fn.box[3] <= fn.scaled[1]
              /\ 0 <= fn.box[2] /\ fn.box[4] <= fn.scaled[2]
              /\ (fn.scaled[1] - fn.box[3]) - fn.box[1] \in {0, 1}
              /\ (fn.scaled[2] - fn.box[4]) - fn.box[2] \in {0, 1}

\* a <= b for two decimal texts without leading zeros
DecLeq(a, b) ==
    \/ Len(a) < Len(b)
    \/ /\ Len(a) = Len(b)
       /\ \/ a = b
          \/ \E k \in 1..Len(a) :
                /\ SubSeq(a, 1, k - 1) = SubSeq(b, 1, k - 1)
                /\ DigitVal(a[k]) < DigitVal(b[k])

SmallTableModels == {"WAN 2.1 1.3B (Text/Video-to-Video)", "WAN 2.1 14B Image-to-Video 480P"}

LargeTableModels == {"WAN 2.1 14B Text-to-Video", "WAN 2.1 14B Image-to-Video 720P"}

\* C12: update_vram_and_resolution returns, for a recognized model and one of
\* the ten presets, the value of the model's table, and that value is not
\* below the value of any smaller preset of the same table; for a preset
\* outside the ten it returns "12000000000"; the aspect-ratio choices are the
\* keys of the small table for the 1.3B and I2V-480P models and of the large
\* table for the T2V-14B and I2V-720P models.
C12_VramTable ==
    fn.name = "update_vram_and_resolution" =>
        /\ fn.preset \notin Presets => fn.result = <<"1", "2", "0", "0", "0", "0", "0", "0", "0", "0", "0">>
        /\ (fn.model \in RecognizedRadios /\ fn.preset \in Presets) =>
              /\ fn.result = VramBranch(fn.model).mapping[fn.preset]
              /\ \A k \in 1..PresetIndex(fn.preset) :
                    DecLeq(VramBranch(fn.model).mapping[PresetOrder[k]], fn.result)
              /\ fn.preset = "4GB" => fn.result = <<"0">>
        /\ fn.model \in SmallTableModels =>
              fn.choices = ASPECT_RATIOS_1_3b /\ Len(fn.choices) = 11
        /\ fn.model \in LargeTableModels =>
              fn.choices = ASPECT_RATIOS_14b /\ Len(fn.choices) = 13

\* C12 witness: the 480P model at 32GB, its value and the small table
C12_Value480PAt32GB ==
    /\ fn.name = "update_vram_and_resolution"
    /\ fn.model = "WAN 2.1 14B Image-to-Video 480P" /\ fn.preset = "32GB"
    /\ fn.result = <<"9", "5", "0", "0", "0", "0", "0", "0", "0", "0">>
    /\ fn.choices[7] = "9:16"

\* a preset that is no key of the table gives the default
C12_DefaultReturned ==
    /\ fn.name = "update_vram_and_resolution"
    /\ fn.model = "WAN 2.1 14B Text-to-Video" /\ fn.preset = "96GB"
    /\ fn.result = <<"1", "2">> \o Zeros(9)

BatchLoopPcs == {"poll", "save", "prep", "sidecar", "rife"}

\* loop steps only move forward: an iteration that begins is a new one, and
\* the image index of a batch run never goes back
C13_Forward ==
    /\ (gen.pc = "poll" /\ gen'.pc = "body") =>
          /\ gen'.iteration = gen.iteration + 1
          /\ \A k \in 1..Len(hist.trace) : hist.trace[k] # <<gen.p, gen.i>>
    /\ (batch' # batch /\ batch.pc \in BatchLoopPcs /\ batch'.pc \in BatchLoopPcs) =>
          /\ batch'.k >= batch.k
          /\ batch'.pc = "poll" => batch'.k = batch.k + 1

C13_Ends ==
    /\ (gen.pc # "idle") ~> (gen.pc = "idle")
    /\ (batch.pc # "idle") ~> (batch.pc = "idle")

\* C13 as stated: every generate_videos run and every batch_process_videos
\* run terminates; the number of loop iterations is at most (number of
\* prompts x num_generations), respectively the number of image files
\* listed, and no iteration is repeated.
C13_TerminatesWithinPTimesN ==
    /\ C13_Ends
    /\ [][C13_Forward]_vars
    /\ [](gen.pc \in LoopPcs => gen.iteration <= Len(gen.prompts_list) * gen.args.num_generations)
    /\ [](batch.pc \in BatchLoopPcs => batch.k <= Len(ImagesOf(FolderListing)))

\* C13 amended: every run terminates; the number of loop iterations is at
\* most (number of prompts x max(num_generations, 0)), respectively the
\* number of image files listed, and no iteration is repeated.
C13_TerminatesWithinPTimesMaxN0 ==
    /\ C13_Ends
    /\ [][C13_Forward]_vars
    /\ [](gen.pc \in LoopPcs =>
            gen.iteration <= Len(gen.prompts_list) * Max(gen.args.num_generations, 0))
    /\ [](batch.pc \in BatchLoopPcs => batch.k <= Len(ImagesOf(FolderListing)))

\* C13 witness: a run of four iterations has returned
C13_FourThenReturned ==
    /\ gen.pc = "idle" /\ hist.calls = 4 /\ Len(hist.trace) = 4
    /\ gen_ret.video # NoPath


\* the iterations the loops of a generate_videos run are set to do
PlannedIterations(a) == PromptCount(a) * Max(a.num_generations, 0)

\* a cancel request made in the run and before its last poll: the flag,
\* cleared when the run began, is set while a poll is still to come
CancelPending ==
    /\ gen.pc # "idle" /\ cancel_flag
    /\ hist.polls < PlannedIterations(gen.args)

\* the return of a cancelled run
CancelledReturn ==
    /\ gen_ret'.video = NoPath /\ CancelledLog(gen_ret'.log)
    /\ loaded_pipeline' = NoPipeline /\ loaded_pipeline_config' = EmptyConfig

\* C14 as stated: a cancel request is never lost: if cancel_generation is
\* called after a generate_videos run has begun and before the run polls the
\* flag for its last iteration, the run starts no further iteration, returns
\* an empty video path with the log line "Generation cancelled by user." and
\* releases the pipeline.
C14_CancelNeverLost ==
    [][CancelPending =>
          /\ hist'.trace = hist.trace
          /\ (gen'.pc = "idle" => CancelledReturn)]_vars

\* C14 amended: such a request stops the run: no further iteration is started
\* and the run returns an empty video path and releases the pipeline; its log
\* has the line "Generation cancelled by user." unless the iteration in
\* progress ends the run with the error of a missing image.
C14_CancelStopsRun ==
    [][CancelPending =>
          /\ hist'.trace = hist.trace
          /\ cancel_flag'
          /\ gen'.pc = "idle" =>
                /\ gen_ret'.video = NoPath
                /\ loaded_pipeline' = NoPipeline /\ loaded_pipeline_config' = EmptyConfig
                /\ IF gen.pc = "poll"
                   THEN CancelledLog(gen_ret'.log)
                   ELSE NoImageReturn /\ gen_ret'.log = NoImageError]_vars

\* C14 witness: cancelled between two iterations, after the first video was
\* saved; the run has returned the cancellation and released the pipeline
C14_CancelledAfterFirst ==
    /\ gen.pc = "idle" /\ CancelledLog(gen_ret.log) /\ gen_ret.video = NoPath
    /\ hist.saves = 1 /\ Len(hist.trace) = 1 /\ hist.polls = 2
    /\ ~loaded_pipeline.loaded /\ loaded_pipeline_config = EmptyConfig


\* the points of a generate_videos run at which the next step calls the pipeline
GenAtPipelineCall ==
    \/ gen.pc = "body" /\ gen.model_choice \in {"1.3B", "14B_text"}
    \/ gen.pc = "invoke"

\* the points of a batch run at which the next step calls the pipeline
BatchAtPipelineCall ==
    WillProcess /\ batch.images[batch.k] \notin Unreadable

\* C15: whatever the interleaving of one generate_videos run and one
\* batch_process_videos run, every pipeline invocation of a run happens on a
\* pipeline that is loaded and that was loaded with that run's own
\* configuration; the end of one run never unloads or replaces the pipeline
\* another run still uses.
C15_OwnPipelineAtEveryCall ==
    /\ GenAtPipelineCall =>
          loaded_pipeline.loaded /\ loaded_pipeline.cfg = gen.current_config
    /\ BatchAtPipelineCall =>
          loaded_pipeline.loaded /\ loaded_pipeline.cfg = batch.current_config


\* C16: whenever neither a generate_videos run nor a batch_process_videos run
\* is in progress, no pipeline is held: loaded_pipeline is None and
\* loaded_pipeline_config is empty after every return that follows a load
\* (completion, cancellation, missing image, missing batch folder).
C16_NoPipelineWhenIdle ==
    (gen.pc = "idle" /\ batch.pc = "idle") =>
        (loaded_pipeline = NoPipeline /\ loaded_pipeline_config = EmptyConfig)


\* what the steps of generate_videos do with a flag set before the run
C17_Step ==
    /\ (gen.pc = "idle" /\ gen'.pc # "idle") => ~cancel_flag'
    /\ (gen.pc = "poll" /\ gen' # gen /\ hist.polls = 0 /\ ~cancel_flag) =>
          /\ gen'.pc = "body" /\ gen'.iteration = 1
          /\ hist'.trace = <<<<1, 0>>>>
    /\ (gen.pc # "idle" /\ gen'.pc = "idle" /\ CancelledLog(gen_ret'.log)) => cancel_flag

\* C17: a cancel request does not leak into a later run: every
\* generate_videos run starts with its cancel flag cleared, so a
\* cancel_generation call made before the run began never cancels it, and
\* such a run with at least one iteration executes its first iteration.
C17_CancelDoesNotLeak == [][C17_Step]_vars

\* C17 witness: the first run was cancelled after two of its four videos, so
\* that its flag was still set when the second run was started; the second
\* run is in its first iteration, its flag clear
C17_RunsAfterCancelledRun ==
    /\ gen.pc = "body" /\ gen.iteration = 1 /\ ~cancel_flag
    /\ hist.saves = 0 /\ calls_left = MaxCalls - 2
    /\ Videos(outputs) = {<<"0", "0", "0", "0", "1">> \o MP4, <<"0", "0", "0", "0", "2">> \o MP4}


BatchCancelledLog(log) ==
    \E k \in 1..Len(log) : log[k].tag = "Batch processing cancelled by user."

\* a poll of the batch flag is still to come in the run in progress
BatchPollToCome ==
    \/ /\ batch.pc \in {"check", "load", "setcfg", "folder"}
       /\ batch.args.folder_path # "missing" /\ Len(ImagesOf(FolderListing)) >= 1
    \/ batch.pc = "poll"
    \/ batch.pc \in {"save", "prep", "sidecar", "rife"} /\ batch.k < Len(batch.images)

\* a request made in the batch run and before its last poll
CancelBatchPending == cancel_batch_flag /\ BatchPollToCome

\* the two flags are apart: a poll that finds its own flag clear goes on,
\* whatever the other flag is
C18_Apart ==
    /\ (gen.pc = "poll" /\ gen' # gen /\ ~cancel_flag) =>
          gen'.pc = "body" /\ ~CancelledLog(gen'.log_text)
    /\ (batch.pc = "poll" /\ batch' # batch /\ ~cancel_batch_flag) =>
          ~BatchCancelledLog(batch'.log_text)
    /\ cancel_flag' # cancel_flag => cancel_batch_flag' = cancel_batch_flag \/ batch' # batch
    /\ cancel_batch_flag' # cancel_batch_flag => cancel_flag' = cancel_flag \/ gen' # gen

\* the end of the loop is followed by the release and the return of the log
C18_EndReleases ==
    (batch.pc = "end" /\ batch' # batch) =>
        /\ batch'.pc = "idle" /\ batch_ret' = batch.log_text
        /\ loaded_pipeline' = NoPipeline /\ loaded_pipeline_config' = EmptyConfig

\* C18 as stated: batch cancellation is separate from single-run cancellation
\* and polled once per image: after cancel_batch_process is called during a
\* batch run, no image whose iteration has not yet started is processed, the
\* loop is left with the log line "Batch processing cancelled by user." and
\* the pipeline is released; neither cancel function ends the other run early.
C18_CancelledWheneverCalled ==
    /\ [][C18_Apart /\ C18_EndReleases]_vars
    /\ [][(cancel_batch_flag /\ batch.pc = "poll" /\ batch' # batch) =>
             (hist' = hist /\ batch_outputs' = batch_outputs)]_vars
    /\ []((batch.pc = "end" /\ cancel_batch_flag) => BatchCancelledLog(batch.log_text))

\* C18 amended: after cancel_batch_process is called during a batch run and
\* before the run polls the flag for its last image, no image whose iteration
\* has not yet started is processed, the loop is left with the log line
\* "Batch processing cancelled by user." and the pipeline is released; neither
\* cancel function ends the other run early.
C18_CancelledBeforeLastPoll ==
    /\ [][C18_Apart /\ C18_EndReleases]_vars
    /\ [][(CancelBatchPending /\ batch' # batch) =>
             /\ hist'.calls = hist.calls
             /\ IF batch.pc = "poll"
                THEN /\ batch'.pc = "end" /\ BatchCancelledLog(batch'.log_text)
                     /\ hist' = hist /\ batch_outputs' = batch_outputs
                     /\ preprocessed' = preprocessed
                ELSE CancelBatchPending']_vars

\* C18 witness: the batch was cancelled after its first video, with images
\* left, while the flag of generate_videos was never set
C18_BatchCancelledAfterFirst ==
    /\ batch.pc = "idle" /\ BatchCancelledLog(batch_ret)
    /\ hist.saves = 1 /\ Len(ImagesOf(FolderListing)) > 1
    /\ ~cancel_flag
    /\ ~loaded_pipeline.loaded /\ loaded_pipeline_config = EmptyConfig


\* auto_pre_processed_images/<base>.png for the video <base>.mp4
PreprocessedOf(video_name) == SplitExt(video_name)[1] \o PNG

\* the iteration in progress of an image-to-video run: the image is on disk
\* from the moment the pipeline can be called, the call comes before the video
C19_ImageThenCall ==
    gen.model_choice \in ImageChoices =>
        /\ gen.pc = "body" => hist.calls = gen.iteration - 1 /\ hist.saves = gen.iteration - 1
        /\ gen.pc = "invoke" =>
              /\ hist.calls = gen.iteration - 1
              /\ PreprocessedOf(gen.video_filename.name) \in preprocessed
              /\ gen.video_filename.name \notin outputs
        /\ gen.pc = "save" =>
              /\ hist.calls = gen.iteration /\ hist.saves = gen.iteration - 1
              /\ PreprocessedOf(gen.video_filename.name) \in preprocessed
        /\ \A k \in 1..Len(hist.saved) : PreprocessedOf(hist.saved[k]) \in preprocessed

\* C19: in generate_videos with an image-to-video model, in every iteration
\* the pre-processed image is written to auto_pre_processed_images/<base>.png
\* before the pipeline is invoked for that iteration, <base> being the base
\* name of the video file that the same iteration saves afterwards.
C19_PreprocessedBeforeCall ==
    /\ []C19_ImageThenCall
    /\ [][(gen.pc = "save" /\ gen' # gen) =>
             /\ outputs' = outputs \cup {gen.video_filename.name}
             /\ hist'.saved = Append(hist.saved, gen.video_filename.name)]_vars

\* C19 witness: the second iteration of an image-to-video run is at its
\* pipeline call; both images are written, one video is
C19_SecondImageWritten ==
    /\ gen.model_choice \in ImageChoices /\ gen.pc = "invoke" /\ gen.iteration = 2
    /\ Len(hist.saved) = 1 /\ Cardinality(preprocessed) = 2
    /\ PreprocessedOf(gen.video_filename.name) \in preprocessed


\* C20: in batch_process_videos with auto crop enabled, the pre-processed
\* image of each processed input is saved before the video generation for
\* that input is complete, i.e. before the pipeline call for it has returned
\* and its video has been written.
C20_BatchImageBeforeVideo ==
    [][(batch.args.auto_crop /\ batch.pc = "save" /\ batch' # batch) =>
          PreprocessedOf(batch.output_filename.name) \in preprocessed]_vars


\* <output folder>/<stem>.mp4 of the image the loop is at
ExistingOutput == (BaseOf(batch.images[batch.k]) \o MP4) \in batch_outputs

\* the poll has found the flag clear and the step is that of the iteration
IterationOfExisting ==
    batch.pc = "poll" /\ ~cancel_batch_flag /\ batch' # batch /\ ExistingOutput

\* the iteration is left for the next image with nothing invoked or written
LeftUntouched ==
    /\ hist' = hist /\ batch_outputs' = batch_outputs /\ preprocessed' = preprocessed
    /\ batch'.pc \in {"poll", "end"}
    /\ batch'.pc = "poll" => batch'.k = batch.k + 1

\* the pipeline is invoked for the image and its video goes to <stem>.mp4
Processed ==
    /\ hist'.calls = hist.calls + 1 /\ hist'.call.iteration = batch.k
    /\ batch'.pc = "save"
    /\ batch'.output_filename = Path("batch_outputs", BaseOf(batch.images[batch.k]) \o MP4)

\* the step that writes the video writes the name chosen for the image
C21_SaveWrites ==
    (batch.pc = "save" /\ batch' # batch) =>
        /\ batch_outputs' = batch_outputs \cup {batch.output_filename.name}
        /\ hist'.saved = Append(hist.saved, batch.output_filename.name)

\* C21 as stated: in batch_process_videos with skip-overwrite enabled, an
\* image whose output <output folder>/<stem>.mp4 exists when its iteration
\* runs is skipped: the pipeline is not invoked and neither the video, its
\* sidecar nor its pre-processed image is written; with skip-overwrite
\* disabled the image is processed and the existing output is replaced.
C21_SkipOrReplace ==
    [][/\ IterationOfExisting =>
             IF batch.args.skip_overwrite THEN LeftUntouched ELSE Processed
       /\ C21_SaveWrites]_vars

\* C21 amended: with skip-overwrite enabled such an image is skipped with
\* nothing invoked or written; with skip-overwrite disabled the image is
\* processed and the existing output replaced if the image file can be
\* opened, and left with its existing output untouched if it cannot.
C21_SkipOrReplaceIfOpened ==
    [][/\ IterationOfExisting =>
             IF batch.args.skip_overwrite \/ batch.images[batch.k] \in Unreadable
             THEN LeftUntouched
             ELSE Processed
       /\ C21_SaveWrites]_vars

\* C21 witness: with skip-overwrite disabled, the video of an image whose
\* output existed has been written again
C21_Replaced ==
    /\ ~batch.args.skip_overwrite /\ batch.pc # "idle"
    /\ hist.saved = <<<<"c">> \o MP4>> /\ batch_outputs = EarlierVideos

\* C21 witness of the other half: with skip-overwrite enabled every image had
\* its output and the loop has ended with nothing invoked
C21_AllSkipped ==
    /\ batch.args.skip_overwrite /\ batch.pc = "end" /\ ~cancel_batch_flag
    /\ hist.calls = 0 /\ hist.saves = 0 /\ batch_outputs = EarlierVideos
    /\ preprocessed = {}


RifeLines(log) == SelectSeq(log, LAMBDA e : e.tag = "Applied Practical-RIFE")

\* the step has run the interpolation subprocess
RifeRan == Len(RifeLines(gen'.log_text)) > Len(RifeLines(gen.log_text))

\* what the steps of generate_videos do with the interpolation
C22_Step ==
    /\ RifeRan =>
          /\ gen.pc = "post" /\ gen'.pc = "finish"
          /\ RifeLines(gen.log_text) = <<>>
          /\ gen.args.pr_rife_enabled
          /\ hist.saves >= 1 /\ gen.last_video_path = Path("outputs", LastSaved)
          /\ outputs' = outputs \cup {Improved \o LastSaved}
          /\ gen'.last_video_path = Path("outputs", Improved \o LastSaved)
          /\ RifeLines(gen'.log_text)[1].it =
                (IF gen.args.pr_rife_radio = "2x FPS" THEN 2 ELSE 4)
    /\ (gen.pc = "finish" /\ gen' # gen) =>
          /\ gen'.pc = "idle" /\ outputs' = outputs
          /\ gen_ret'.video = Path("outputs", Improved \o LastSaved)
    /\ (gen.pc = "post" /\ gen' # gen /\ ~RifeRan) =>
          /\ gen'.pc = "idle" /\ outputs' = outputs
          /\ ~(gen.args.pr_rife_enabled /\ hist.saves >= 1)
    /\ (gen.pc \in {"poll", "body"} /\ gen'.pc = "idle") =>
          /\ outputs' = outputs /\ RifeLines(gen_ret'.log) = <<>>
          /\ gen_ret'.video = NoPath

\* C22: in generate_videos the frame-interpolation subprocess is run at most
\* once per run, only after the whole loop has finished, only when
\* interpolation is enabled and at least one video was saved, and on the last
\* saved video; the returned path is then outputs/improved_<name of that
\* video>, the multiplier is 2 for "2x FPS" and 4 for any other selection, and
\* a run that was cancelled or stopped by an error never starts the subprocess.
C22_InterpolatedOnceAtTheEnd ==
    /\ [][C22_Step]_vars
    /\ [](gen.pc \in {"check", "load", "setcfg", "poll"} \cup IterationPcs =>
             RifeLines(gen.log_text) = <<>>)

\* C22 witness: a run of four videos has returned the interpolated fourth
C22_FourthInterpolated ==
    /\ gen.pc = "idle" /\ hist.saves = 4
    /\ gen_ret.video = Path("outputs", Improved \o hist.saved[4])
    /\ (Improved \o hist.saved[4]) \in outputs
    /\ \A k \in 1..3 : (Improved \o hist.saved[k]) \notin outputs
    /\ Len(RifeLines(gen_ret.log)) = 1

====
